---- MODULE Spec2Model ----
(***************************************************************************)
(* Session and credential lifecycle of the authentication template:        *)
(* the users table, the sessions table, the Redis session keys and the     *)
(* per-user reverse index, and the AuthService operations over them.       *)
(* Time is in seconds.  Tokens produced by randomBytes are modelled as     *)
(* fresh integers drawn from per-kind counters.                            *)
(***************************************************************************)
EXTENDS Integers, Sequences, FiniteSets, TLC

NULL == 0

\* ---------------------------------------------------------------- bounds
MaxResetTokens == 1
MaxSessionTokens == 1
MaxLimitTokens == 6
MaxLimitNow == 1
MaxIssueTokens == 2
MaxFaultTokens == 6
MaxRotateTokens == 2
MaxRateCalls == 6

\* ------------------------------------------------------ program constants
MAX_SESSIONS_PER_USER == 5
SESSION_TTL == 7 * 24 * 60 * 60
VERIFICATION_TTL == 24 * 60 * 60
RESET_TTL == 60 * 60
MIN_SCORE == 3
SESSION_ROTATION_INTERVAL == 30 * 60

\* ----------------------------------------------------------------- inputs
\* An email address is a sequence of characters; the two addresses differ in
\* letter case only.  The users table holds at most one row per address.
Emails == { <<"a", "@", "x">>, <<"A", "@", "x">> }
Names == {"Ann"}
Passwords == {"Str0ng!Pass99", "0ther!Pass42", "Weakpw1"}
\* The instants the clock visits: each TTL's deadline and the second after it.
Instants == {0, RESET_TTL, RESET_TTL + 1, VERIFICATION_TTL, VERIFICATION_TTL + 1}

VARIABLES
  usersTable,        \* rows of table users; the id of a row is its index
  sessionsTable,     \* rows of table sessions, keyed by sessionToken
  sessionKeys,       \* Redis keys session:{token} -> payload and TTL deadline
  userSessionsKeys,  \* Redis keys user_sessions:{userId} -> set and TTL deadline
  redisUp,           \* what testRedisConnection answers
  now,               \* the clock
  nextVerifyToken,   \* fresh-token counters
  nextResetToken,
  nextSessionToken,
  pending,           \* requests in flight between their read and their write
  resp,              \* the response of the last request
  rateLimitStore,    \* the Map of checkRateLimit: identifier -> count, resetTime
  rateLimitCalls     \* history: the calls of checkRateLimit and their answers

vars == <<usersTable, sessionsTable, sessionKeys, userSessionsKeys, redisUp, now,
          nextVerifyToken, nextResetToken, nextSessionToken, pending, resp,
          rateLimitStore, rateLimitCalls>>

\* ---------------------------------------------------------------- helpers
Put(f, k, v) == [x \in DOMAIN f \cup {k} |-> IF x = k THEN v ELSE f[x]]
Drop(f, K) == [x \in DOMAIN f \ K |-> f[x]]
EmptyMap == [x \in {} |-> NULL]

\* String.prototype.toLowerCase, one character at a time
LowerChar(c) == IF c = "A" THEN "a" ELSE c
toLowerCase(s) == [i \in DOMAIN s |-> LowerChar(s[i])]

\* String.prototype.trim
RECURSIVE trimStart(_)
trimStart(s) == IF s # <<>> /\ Head(s) = " " THEN trimStart(Tail(s)) ELSE s
RECURSIVE trimEnd(_)
trimEnd(s) ==
  IF s # <<>> /\ s[Len(s)] = " " THEN trimEnd(SubSeq(s, 1, Len(s) - 1)) ELSE s
trim(s) == trimEnd(trimStart(s))

sanitizeEmail(email) == trim(toLowerCase(email))

\* ------------------------------------------------------------- passwords
\* zxcvbn's score of the three sample passwords
zxcvbnScore(password) == IF password = "Weakpw1" THEN 1 ELSE 4
validatePasswordStrength(password) ==
  [isValid |-> zxcvbnScore(password) >= MIN_SCORE, score |-> zxcvbnScore(password)]
hashPassword(password) == <<"argon2id", password>>
verifyPassword(password, hash) == hash = hashPassword(password)

\* ------------------------------------------------------------ RedisUtils
Store == [sk |-> sessionKeys, us |-> userSessionsKeys, db |-> sessionsTable]

\* a GET that answers only for the tokens a reverse-index set lists
redisGetIndexed(s, tok) ==
  IF tok \in DOMAIN s.sk /\ \E u \in DOMAIN s.us : tok \in s.us[u].members
    THEN <<s.sk[tok]>>
    ELSE <<>>

redisGet(s, tok) == IF tok \in DOMAIN s.sk THEN <<s.sk[tok]>> ELSE <<>>

setWithTTL(s, tok, data, ttl) ==
  [s EXCEPT !.sk = Put(s.sk, tok, [data EXCEPT !.ttlAt = now + ttl])]
del(s, tok) == [s EXCEPT !.sk = Drop(s.sk, {tok})]
delUserSessions(s, userId) == [s EXCEPT !.us = Drop(s.us, {userId})]
smembers(s, userId) == IF userId \in DOMAIN s.us THEN s.us[userId].members ELSE {}
\* SADD creates the set without a TTL when the key is missing
sadd(s, userId, tok) ==
  IF userId \in DOMAIN s.us
    THEN [s EXCEPT !.us[userId].members = @ \cup {tok}]
    ELSE [s EXCEPT !.us = Put(s.us, userId, [members |-> {tok}, ttlAt |-> NULL])]
\* SREM deletes the key when the last member is removed
sremAll(s, userId, toks) ==
  IF userId \notin DOMAIN s.us THEN s
  ELSE IF s.us[userId].members \ toks = {} THEN delUserSessions(s, userId)
  ELSE [s EXCEPT !.us[userId].members = @ \ toks]
srem(s, userId, tok) == sremAll(s, userId, {tok})
expire(s, userId, ttl) ==
  IF userId \in DOMAIN s.us THEN [s EXCEPT !.us[userId].ttlAt = now + ttl] ELSE s

\* --------------------------------------------------------- session store
\* JSON.parse of a stored value: the text of a payload is modelled by the
\* payload, a text that is not JSON by a record without the payload's fields;
\* <<>>: JSON.parse throws
JSONparse(text) == IF "userId" \in DOMAIN text THEN <<text>> ELSE <<>>

NoSession == [valid |-> FALSE]

invalidateDatabaseSession(s, sessionToken) ==
  [s EXCEPT !.db = Drop(s.db, {sessionToken})]

invalidateSession(s, sessionToken, redisAvailable) ==
  IF redisAvailable
    THEN LET s1 == IF /\ sessionToken \in DOMAIN s.sk
                          /\ JSONparse(s.sk[sessionToken]) # <<>>
                     THEN srem(s, s.sk[sessionToken].userId, sessionToken)
                     ELSE s
         IN del(s1, sessionToken)
    ELSE invalidateDatabaseSession(s, sessionToken)

invalidateAllDatabaseSessions(s, userId) ==
  [s EXCEPT !.db = Drop(s.db, {t \in DOMAIN s.db : s.db[t].userId = userId})]

invalidateAllUserSessions(s, userId, redisAvailable) ==
  IF redisAvailable
    THEN LET s1 == [s EXCEPT !.sk = Drop(s.sk, smembers(s, userId))]
         IN delUserSessions(s1, userId)
    ELSE invalidateAllDatabaseSessions(s, userId)

\* The rows of the user, newest first, cut after MAX_SESSIONS_PER_USER + 1:
\* the row the query can return last when more than the maximum come back.
\* Rows of equal createdAt come back in any order.
dbOldestOfNewest(s, userId) ==
  LET rows == {t \in DOMAIN s.db : s.db[t].userId = userId}
      newer(t) == {r \in rows : s.db[r].createdAt > s.db[t].createdAt}
      notOlder(t) == {r \in rows \ {t} : s.db[r].createdAt >= s.db[t].createdAt}
  IN IF Cardinality(rows) > MAX_SESSIONS_PER_USER
       THEN {t \in rows : /\ Cardinality(newer(t)) <= MAX_SESSIONS_PER_USER
                          /\ Cardinality(notOlder(t)) >= MAX_SESSIONS_PER_USER}
       ELSE {}

enforceDatabaseSessionLimit(s, userId, victim) ==
  IF victim \in dbOldestOfNewest(s, userId)
    THEN invalidateDatabaseSession(s, victim)
    ELSE s

\* The tokens of the reverse index whose session key is still there and whose
\* createdAt is smallest: the loop keeps the first of them it meets.
redisOldest(s, userId) ==
  LET found == {t \in smembers(s, userId) : t \in DOMAIN s.sk}
  IN IF Cardinality(smembers(s, userId)) >= MAX_SESSIONS_PER_USER
       THEN {t \in found : \A r \in found : s.sk[t].createdAt <= s.sk[r].createdAt}
       ELSE {}

\* The sessions enforceSessionLimit may pick to evict (NULL: none).
evictionChoices(s, userId, redisAvailable) ==
  LET c == IF redisAvailable THEN redisOldest(s, userId)
                             ELSE dbOldestOfNewest(s, userId)
  IN IF c = {} THEN {NULL} ELSE c

enforceSessionLimit(s, userId, redisAvailable, victim) ==
  IF redisAvailable
    THEN IF Cardinality(smembers(s, userId)) >= MAX_SESSIONS_PER_USER
           THEN LET stale == {t \in smembers(s, userId) : t \notin DOMAIN s.sk}
                    s1 == sremAll(s, userId, stale)
                IN IF victim # NULL
                     THEN invalidateSession(s1, victim, redisAvailable)
                     ELSE s1
           ELSE s
    ELSE enforceDatabaseSessionLimit(s, userId, victim)

\* a row that is past its expiry when it is inserted
createDatabaseSessionExpired(s, userId, sessionToken) ==
  [s EXCEPT !.db = Put(s.db, sessionToken,
      [userId |-> userId, expiresAt |-> now - 1,
       createdAt |-> now, lastAccessed |-> now])]

createDatabaseSession(s, userId, sessionToken) ==
  [s EXCEPT !.db = Put(s.db, sessionToken,
      [userId |-> userId, expiresAt |-> now + SESSION_TTL,
       createdAt |-> now, lastAccessed |-> now])]

\* createSession after its user lookup succeeded
createSession(s, userId, sessionToken, redisAvailable, victim) ==
  LET s1 == enforceSessionLimit(s, userId, redisAvailable, victim)
      userData == usersTable[userId]
      sessionData == [userId |-> userId, email |-> userData.email,
                      name |-> userData.name,
                      emailVerified |-> userData.emailVerified,
                      createdAt |-> now, lastAccessed |-> now, ttlAt |-> NULL]
  IN IF redisAvailable
       THEN expire(sadd(setWithTTL(s1, sessionToken, sessionData, SESSION_TTL),
                        userId, sessionToken),
                   userId, SESSION_TTL)
       ELSE createDatabaseSession(s1, userId, sessionToken)

\* a validation that does not write lastAccessed
validateDatabaseSessionUnstamped(s, sessionToken) ==
  IF sessionToken \notin DOMAIN s.db \/ now > s.db[sessionToken].expiresAt
    THEN [s |-> s, result |-> NoSession]
  ELSE IF s.db[sessionToken].userId \notin DOMAIN usersTable
    THEN [s |-> s, result |-> NoSession]
  ELSE LET row == s.db[sessionToken]
           user == usersTable[row.userId]
       IN [s |-> s,
           result |-> [valid |-> TRUE, userId |-> row.userId, email |-> user.email,
                       name |-> user.name, emailVerified |-> user.emailVerified,
                       createdAt |-> row.createdAt]]

validateDatabaseSession(s, sessionToken) ==
  IF sessionToken \notin DOMAIN s.db \/ now > s.db[sessionToken].expiresAt
    THEN [s |-> s, result |-> NoSession]
  ELSE IF s.db[sessionToken].userId \notin DOMAIN usersTable
    THEN [s |-> s, result |-> NoSession]
  ELSE LET row == s.db[sessionToken]
           user == usersTable[row.userId]
       IN [s |-> [s EXCEPT !.db[sessionToken].lastAccessed = now],
           result |-> [valid |-> TRUE, userId |-> row.userId, email |-> user.email,
                       name |-> user.name, emailVerified |-> user.emailVerified,
                       createdAt |-> row.createdAt]]

\* a validation that leaves a value it cannot parse in the cache
validateSessionKeepingMalformed(s, sessionToken, redisAvailable) ==
  IF redisAvailable
    THEN IF redisGet(s, sessionToken) = <<>>
           THEN validateDatabaseSession(s, sessionToken)
         ELSE IF JSONparse(s.sk[sessionToken]) = <<>>
           THEN [s |-> s, result |-> NoSession]
           ELSE LET sessionData == [s.sk[sessionToken] EXCEPT !.lastAccessed = now]
                IN [s |-> setWithTTL(s, sessionToken, sessionData, SESSION_TTL),
                    result |-> [valid |-> TRUE, userId |-> sessionData.userId,
                                email |-> sessionData.email,
                                name |-> sessionData.name,
                                emailVerified |-> sessionData.emailVerified,
                                createdAt |-> sessionData.createdAt]]
    ELSE validateDatabaseSession(s, sessionToken)

validateSession(s, sessionToken, redisAvailable) ==
  IF redisAvailable
    THEN IF redisGet(s, sessionToken) = <<>>
           THEN validateDatabaseSession(s, sessionToken)
         ELSE IF JSONparse(s.sk[sessionToken]) = <<>>
           THEN [s |-> del(s, sessionToken), result |-> NoSession]
           ELSE LET sessionData == [s.sk[sessionToken] EXCEPT !.lastAccessed = now]
                IN [s |-> setWithTTL(s, sessionToken, sessionData, SESSION_TTL),
                    result |-> [valid |-> TRUE, userId |-> sessionData.userId,
                                email |-> sessionData.email,
                                name |-> sessionData.name,
                                emailVerified |-> sessionData.emailVerified,
                                createdAt |-> sessionData.createdAt]]
    ELSE validateDatabaseSession(s, sessionToken)

\* Redis drops a key when its TTL has run out
expireKeys(f, t) == Drop(f, {k \in DOMAIN f : f[k].ttlAt # NULL /\ f[k].ttlAt <= t})

\* ------------------------------------------------------ session rotation
\* Date.prototype.toISOString and its inverse new Date(string).getTime(); a
\* string is a tuple, the empty tuple the empty string or undefined, and the
\* time value NaN is the empty tuple
toISOString(t) == <<"iso", t>>
getTime(dateString) ==
  IF Len(dateString) = 2 /\ dateString[1] = "iso" THEN <<dateString[2]>> ELSE <<>>
\* a - b and a > b on time values: NaN propagates, NaN compares false
minusTime(a, b) == IF a = <<>> \/ b = <<>> THEN <<>> ELSE <<a[1] - b[1]>>
greaterTime(a, b) == a # <<>> /\ b # <<>> /\ a[1] > b[1]

\* a policy that asks for rotation at every call
shouldRotateSessionAlways(sessionCreatedAt) == TRUE

shouldRotateSession(sessionCreatedAt) ==
  IF sessionCreatedAt = <<>> THEN TRUE
  ELSE LET createdTime == getTime(sessionCreatedAt)
       IN greaterTime(minusTime(<<now>>, createdTime), <<SESSION_ROTATION_INTERVAL>>)

\* ------------------------------------------- a Redis command that throws
\* A fault names the Redis command whose first call inside an operation
\* throws; every other command succeeds.  The connection test has passed.
RedisFaults == {"none", "smembers", "get", "srem", "del", "setex", "sadd", "expire"}

\* invalidateSession: the catch block falls back to the sessions table
invalidateSessionFaulty(s, sessionToken, redisAvailable, fault) ==
  IF ~redisAvailable THEN invalidateDatabaseSession(s, sessionToken)
  ELSE IF fault = "get" THEN invalidateDatabaseSession(s, sessionToken)
  ELSE IF fault = "srem" /\ sessionToken \in DOMAIN s.sk
    THEN invalidateDatabaseSession(s, sessionToken)
  ELSE IF fault = "del"
    THEN LET s1 == IF sessionToken \in DOMAIN s.sk
                     THEN srem(s, s.sk[sessionToken].userId, sessionToken)
                     ELSE s
         IN invalidateDatabaseSession(s1, sessionToken)
  ELSE invalidateSession(s, sessionToken, redisAvailable)

\* invalidateAllUserSessions: done are the session keys deleted before the
\* failing DEL
invalidateAllUserSessionsFaulty(s, userId, redisAvailable, fault, done) ==
  IF ~redisAvailable THEN invalidateAllDatabaseSessions(s, userId)
  ELSE IF fault = "smembers" THEN invalidateAllDatabaseSessions(s, userId)
  ELSE IF fault = "del"
    THEN invalidateAllDatabaseSessions(
           [s EXCEPT !.sk = Drop(s.sk, done \cap smembers(s, userId))], userId)
  ELSE invalidateAllUserSessions(s, userId, redisAvailable)

\* validateSession: the catch block answers from the sessions table
validateSessionFaulty(s, sessionToken, redisAvailable, fault) ==
  IF redisAvailable /\ fault = "get"
    THEN validateDatabaseSession(s, sessionToken)
  ELSE IF redisAvailable /\ fault = "setex" /\ redisGet(s, sessionToken) # <<>>
    THEN validateDatabaseSession(s, sessionToken)
  ELSE validateSession(s, sessionToken, redisAvailable)

\* enforceSessionLimit: used tells that the fault has happened
enforceSessionLimitFaulty(s, userId, redisAvailable, victim, dbVictim, fault) ==
  LET members == smembers(s, userId)
      stale == {t \in members : t \notin DOMAIN s.sk}
      s1 == sremAll(s, userId, stale)
      caught == [s |-> enforceDatabaseSessionLimit(s, userId, dbVictim),
                 used |-> TRUE]
  IN IF ~redisAvailable
       THEN [s |-> enforceDatabaseSessionLimit(s, userId, dbVictim), used |-> FALSE]
     ELSE IF fault = "smembers" THEN caught
     ELSE IF Cardinality(members) < MAX_SESSIONS_PER_USER
       THEN [s |-> s, used |-> FALSE]
     ELSE IF fault = "get" THEN caught
     ELSE IF fault = "srem" /\ stale # {} THEN caught
     ELSE IF victim = NULL THEN [s |-> s1, used |-> FALSE]
     ELSE [s |-> invalidateSessionFaulty(s1, victim, redisAvailable, fault),
           used |-> fault \in {"srem", "del"}]

\* a createSession whose Redis branch has no catch block
createSessionFaultyUncaught(s, userId, sessionToken, redisAvailable, victim, dbVictim, fault) ==
  LET e == enforceSessionLimitFaulty(s, userId, redisAvailable, victim, dbVictim, fault)
      left == IF e.used THEN "none" ELSE fault
  IN IF userId \notin DOMAIN usersTable THEN [s |-> e.s, thrown |-> TRUE]
     ELSE IF redisAvailable /\ left \in {"setex", "sadd", "expire"}
       THEN [s |-> e.s, thrown |-> TRUE]
     ELSE [s |-> createSession(e.s, userId, sessionToken, redisAvailable, NULL),
           thrown |-> FALSE]

\* createSession: the user lookup follows the enforcement; the catch block
\* inserts the row into the sessions table
createSessionFaulty(s, userId, sessionToken, redisAvailable, victim, dbVictim, fault) ==
  LET e == enforceSessionLimitFaulty(s, userId, redisAvailable, victim, dbVictim, fault)
      left == IF e.used THEN "none" ELSE fault
      userData == usersTable[userId]
      sessionData == [userId |-> userId, email |-> userData.email,
                      name |-> userData.name,
                      emailVerified |-> userData.emailVerified,
                      createdAt |-> now, lastAccessed |-> now, ttlAt |-> NULL]
      s1 == setWithTTL(e.s, sessionToken, sessionData, SESSION_TTL)
      s2 == sadd(s1, userId, sessionToken)
  IN IF userId \notin DOMAIN usersTable THEN [s |-> e.s, thrown |-> TRUE]
     ELSE IF ~redisAvailable \/ left = "setex"
       THEN [s |-> createDatabaseSession(e.s, userId, sessionToken), thrown |-> FALSE]
     ELSE IF left = "sadd"
       THEN [s |-> createDatabaseSession(s1, userId, sessionToken), thrown |-> FALSE]
     ELSE IF left = "expire"
       THEN [s |-> createDatabaseSession(s2, userId, sessionToken), thrown |-> FALSE]
     ELSE [s |-> expire(s2, userId, SESSION_TTL), thrown |-> FALSE]

\* ---------------------------------------------------------------- errors
ErrorFactory_validation(message) ==
  [app |-> TRUE, type |-> "VALIDATION", statusCode |-> 400, message |-> message]
ErrorFactory_authentication(message) ==
  [app |-> TRUE, type |-> "AUTHENTICATION", statusCode |-> 401, message |-> message]
ErrorFactory_notFound(resource) ==
  [app |-> TRUE, type |-> "NOT_FOUND", statusCode |-> 404,
   message |-> IF resource = "User" THEN "User not found" ELSE "Resource not found"]
ErrorFactory_conflict(message) ==
  [app |-> TRUE, type |-> "CONFLICT", statusCode |-> 409, message |-> message]
ErrorFactory_rateLimit(message) ==
  [app |-> TRUE, type |-> "RATE_LIMIT", statusCode |-> 429, message |-> message]
\* new Error(message): no type, no status
PlainError(message) ==
  [app |-> FALSE, type |-> "", statusCode |-> 0, message |-> message]

\* String.prototype.includes over the messages of the model
includes(message, needle) ==
  \/ needle = "unique constraint" /\ message \in {"duplicate key value violates unique constraint"}
  \/ needle = "validation" /\ message \in {}

handleError(error) ==
  IF error.app
    THEN [status |-> error.statusCode, type |-> error.type,
          error |-> error.message, message |-> ""]
  ELSE IF includes(error.message, "unique constraint")
    THEN [status |-> 409, type |-> "CONFLICT",
          error |-> "Resource already exists", message |-> ""]
  ELSE IF includes(error.message, "validation")
    THEN [status |-> 400, type |-> "VALIDATION",
          error |-> error.message, message |-> ""]
  ELSE [status |-> 500, type |-> "INTERNAL",
        error |-> "Internal server error", message |-> ""]

createApiResponse(message, status) ==
  [status |-> status, type |-> "", error |-> "", message |-> message]

Throw(error) == [thrown |-> TRUE, error |-> error, message |-> "", userId |-> NULL]
Return(message, userId) ==
  [thrown |-> FALSE, error |-> PlainError(""), message |-> message, userId |-> userId]

\* the route handler's try/catch around a service call
routeResponse(outcome, status) ==
  IF outcome.thrown THEN handleError(outcome.error)
                    ELSE createApiResponse(outcome.message, status)

\* sendEmail: the transport either delivers or throws
sendEmail(mailOk) ==
  IF mailOk THEN <<>> ELSE <<PlainError("Email sending failed: Unknown error")>>

\* ----------------------------------------------------------- users table
usersByEmail(email) == {i \in DOMAIN usersTable : usersTable[i].email = email}
usersByVerificationToken(token) ==
  {i \in DOMAIN usersTable : usersTable[i].emailVerificationToken = token}
usersByResetToken(token) ==
  {i \in DOMAIN usersTable : usersTable[i].passwordResetToken = token}
\* .limit(1): one row of the result
firstRow(rows) == CHOOSE i \in rows : \A j \in rows : i <= j

newUserRow(name, email, passwordHash) ==
  [name |-> name, email |-> email, passwordHash |-> passwordHash,
   emailVerified |-> FALSE,
   emailVerificationToken |-> NULL, emailVerificationExpires |-> NULL,
   passwordResetToken |-> NULL, passwordResetExpires |-> NULL]

\* an INSERT that lets a second row with the same email in
insertUserUnconstrained(users, row) == <<Append(users, row)>>

\* INSERT INTO users: the unique constraint on email refuses a second row with
\* the same email (<<>>: the driver throws)
insertUser(users, row) ==
  IF \E i \in DOMAIN users : users[i].email = row.email
    THEN <<>>
    ELSE <<Append(users, row)>>

\* --------------------------------------------------------- Token capability
createEmailVerificationToken(users, userId, token) ==
  [users EXCEPT ![userId].emailVerificationToken = token,
                ![userId].emailVerificationExpires = now + VERIFICATION_TTL]

\* a token write that keeps a token the row already holds
writePasswordResetTokenIfNone(users, userId, token) ==
  IF users[userId].passwordResetToken # NULL THEN users
  ELSE [users EXCEPT ![userId].passwordResetToken = token,
                     ![userId].passwordResetExpires = now + RESET_TTL]

\* a token write that also blanks the password of the row
writePasswordResetTokenBlankingPassword(users, userId, token) ==
  [users EXCEPT ![userId].passwordResetToken = token,
                ![userId].passwordResetExpires = now + RESET_TTL,
                ![userId].passwordHash = hashPassword("")]

writePasswordResetToken(users, userId, token) ==
  [users EXCEPT ![userId].passwordResetToken = token,
                ![userId].passwordResetExpires = now + RESET_TTL]

\* ------------------------------------------------------------ AuthService
WeakPasswordMessage == "Password is too weak. Score: 1/4. Suggestions: "
RegisteredMessage ==
  "User registered successfully. Please check your email to verify your account."
ForgotMessage ==
  "If an account with this email exists, a password reset link has been sent"

\* what register answers; stage 1: nothing written, stage 2: the row and its
\* verification token are written
register(name, email, password, mailOk) ==
  IF ~validatePasswordStrength(password).isValid
    THEN Throw(ErrorFactory_validation(WeakPasswordMessage))
  ELSE IF usersByEmail(email) # {}
    THEN Throw(ErrorFactory_conflict("User with this email already exists"))
  ELSE IF sendEmail(mailOk) # <<>>
    THEN [Throw(sendEmail(mailOk)[1]) EXCEPT !.userId = Len(usersTable) + 1]
  ELSE Return(RegisteredMessage, Len(usersTable) + 1)

\* a login that tells an unknown address from a wrong password
loginRevealingUnknownEmail(email, password) ==
  IF usersByEmail(email) = {}
    THEN Throw(ErrorFactory_notFound("User not found"))
  ELSE IF ~verifyPassword(password,
                          usersTable[firstRow(usersByEmail(email))].passwordHash)
    THEN Throw(ErrorFactory_authentication("Invalid email or password"))
  ELSE Return("Login successful", firstRow(usersByEmail(email)))

login(email, password) ==
  IF usersByEmail(email) = {}
    THEN Throw(ErrorFactory_authentication("Invalid email or password"))
  ELSE IF ~verifyPassword(password,
                          usersTable[firstRow(usersByEmail(email))].passwordHash)
    THEN Throw(ErrorFactory_authentication("Invalid email or password"))
  ELSE Return("Login successful", firstRow(usersByEmail(email)))

verifyEmail(token) ==
  IF usersByVerificationToken(token) = {}
    THEN Throw(ErrorFactory_validation("Invalid or expired verification token"))
  ELSE LET user == usersTable[firstRow(usersByVerificationToken(token))]
       IN IF user.emailVerificationExpires # NULL
             /\ now > user.emailVerificationExpires
            THEN Throw(ErrorFactory_validation("Verification token has expired"))
            ELSE Return("Email verified successfully",
                        firstRow(usersByVerificationToken(token)))

\* userId: the user createPasswordResetToken found and wrote a token for
forgotPassword(email, mailOk) ==
  IF usersByEmail(email) = {} THEN Return(ForgotMessage, NULL)
  ELSE IF sendEmail(mailOk) # <<>>
    THEN [Throw(sendEmail(mailOk)[1]) EXCEPT !.userId = firstRow(usersByEmail(email))]
  ELSE Return(ForgotMessage, firstRow(usersByEmail(email)))

\* a reset that does not look at the expiry of the token
resetPasswordIgnoringExpiry(token, newPassword) ==
  IF ~validatePasswordStrength(newPassword).isValid
    THEN Throw(ErrorFactory_validation(WeakPasswordMessage))
  ELSE IF usersByResetToken(token) = {}
    THEN Throw(ErrorFactory_validation("Invalid or expired reset token"))
  ELSE Return("Password reset successfully", firstRow(usersByResetToken(token)))

resetPassword(token, newPassword) ==
  IF ~validatePasswordStrength(newPassword).isValid
    THEN Throw(ErrorFactory_validation(WeakPasswordMessage))
  ELSE IF usersByResetToken(token) = {}
    THEN Throw(ErrorFactory_validation("Invalid or expired reset token"))
  ELSE LET user == usersTable[firstRow(usersByResetToken(token))]
       IN IF user.passwordResetExpires # NULL /\ now > user.passwordResetExpires
            THEN Throw(ErrorFactory_validation("Reset token has expired"))
            ELSE Return("Password reset successfully",
                        firstRow(usersByResetToken(token)))

\* a verification write that leaves the token in the row
markEmailVerifiedKeepingToken(users, userId) ==
  [users EXCEPT ![userId].emailVerified = TRUE]

getCurrentUser(sessionToken) ==
  LET session == validateSession(Store, sessionToken, redisUp).result
  IN IF ~session.valid
       THEN Throw(ErrorFactory_authentication("Invalid or expired session"))
     ELSE IF session.userId \notin DOMAIN usersTable
       THEN Throw(ErrorFactory_notFound("User"))
     ELSE Return("", session.userId)

\* the user getCurrentUser returns: the row it selects from the users table
currentUserFields(sessionToken) ==
  LET user == usersTable[getCurrentUser(sessionToken).userId]
  IN [id |-> getCurrentUser(sessionToken).userId, name |-> user.name,
      email |-> user.email, emailVerified |-> user.emailVerified]

\* a rotation that does not compare the session's user with the caller's
rotateSessionAnyUser(currentSessionToken, userId) ==
  IF ~validateSession(Store, currentSessionToken, redisUp).result.valid
    THEN Throw(PlainError("Invalid session for rotation"))
    ELSE Return("", userId)

\* what rotateSession answers before it creates anything; userId: the caller's
rotateSession(currentSessionToken, userId) ==
  LET currentSession == validateSession(Store, currentSessionToken, redisUp).result
  IN IF ~currentSession.valid
       THEN Throw(PlainError("Invalid session for rotation"))
     ELSE IF currentSession.userId # userId
       THEN Throw(PlainError("User ID mismatch for session rotation"))
     ELSE Return("", userId)

\* rotateSession goes on to create a session
rotationDue(currentSessionToken) ==
  shouldRotateSession(
    toISOString(validateSession(Store, currentSessionToken, redisUp).result.createdAt))

\* the write of verifyEmail
markEmailVerified(users, userId) ==
  [users EXCEPT ![userId].emailVerified = TRUE,
                ![userId].emailVerificationToken = NULL,
                ![userId].emailVerificationExpires = NULL]

\* a reset write that clears the token and leaves its expiry
storeNewPasswordKeepingExpiry(users, userId, passwordHash) ==
  [users EXCEPT ![userId].passwordHash = passwordHash,
                ![userId].passwordResetToken = NULL]

\* the write of resetPassword
storeNewPassword(users, userId, passwordHash) ==
  [users EXCEPT ![userId].passwordHash = passwordHash,
                ![userId].passwordResetToken = NULL,
                ![userId].passwordResetExpires = NULL]

\* ---------------------------------------------------------- rate limiting
\* the key prefixes and their limits: the forgot-password route, and a prefix
\* with the smallest limit; both windows are one hour
RateKeyPrefixes == {"forgot_password", "probe"}
maxRequestsOf(keyPrefix) == IF keyPrefix = "forgot_password" THEN 3 ELSE 1
RateWindow == 60 * 60

\* a limiter that lets one call more through in each window
checkRateLimitOneMore(store, identifier, maxRequests, windowMs) ==
  IF identifier \notin DOMAIN store \/ now > store[identifier].resetTime
    THEN [store |-> Put(store, identifier,
                        [count |-> 1, resetTime |-> now + windowMs]),
          allowed |-> TRUE, remaining |-> maxRequests - 1,
          resetTime |-> now + windowMs]
  ELSE IF store[identifier].count > maxRequests
    THEN [store |-> store, allowed |-> FALSE, remaining |-> 0,
          resetTime |-> store[identifier].resetTime]
  ELSE [store |-> [store EXCEPT ![identifier].count = @ + 1],
        allowed |-> TRUE,
        remaining |-> maxRequests - (store[identifier].count + 1),
        resetTime |-> store[identifier].resetTime]

\* store: the Map after the call
checkRateLimit(store, identifier, maxRequests, windowMs) ==
  IF identifier \notin DOMAIN store \/ now > store[identifier].resetTime
    THEN [store |-> Put(store, identifier,
                        [count |-> 1, resetTime |-> now + windowMs]),
          allowed |-> TRUE, remaining |-> maxRequests - 1,
          resetTime |-> now + windowMs]
  ELSE IF store[identifier].count >= maxRequests
    THEN [store |-> store, allowed |-> FALSE, remaining |-> 0,
          resetTime |-> store[identifier].resetTime]
  ELSE [store |-> [store EXCEPT ![identifier].count = @ + 1],
        allowed |-> TRUE,
        remaining |-> maxRequests - (store[identifier].count + 1),
        resetTime |-> store[identifier].resetTime]

\* -------------------------------------------------------- request bodies
\* String.prototype.length of the names and passwords of the model
length(string) ==
  IF string = "" THEN 0
  ELSE IF string = "Ann" THEN 3
  ELSE IF string = "Weakpw1" THEN 7
  ELSE IF string = "0ther!Pass42" THEN 12
  ELSE 13

\* z.string().email(): a local part, one "@" and a domain
isEmail(email) ==
  /\ Len(email) >= 3
  /\ Cardinality({i \in DOMAIN email : email[i] = "@"}) = 1
  /\ email[1] # "@"
  /\ email[Len(email)] # "@"

\* the password rule of registerSchema and resetPasswordSchema: every sample
\* of eight characters or more has a lower-case letter, an upper-case letter
\* and a digit and no character outside the class
passwordIssue(password) ==
  IF length(password) < 8 THEN "Password must be at least 8 characters long"
  ELSE ""

\* safeParse: the message of the first issue, "" when the body parses
registerSchema(name, email, password) ==
  IF length(name) < 2 THEN "Name must be at least 2 characters long"
  ELSE IF ~isEmail(email) THEN "Invalid email format"
  ELSE passwordIssue(password)

loginSchema(email, password) ==
  IF ~isEmail(email) THEN "Invalid email format"
  ELSE IF length(password) < 1 THEN "Password is required"
  ELSE ""

forgotPasswordSchema(email) ==
  IF ~isEmail(email) THEN "Invalid email format" ELSE ""

resetPasswordSchema(token, newPassword) ==
  IF token = NULL THEN "Reset token is required" ELSE passwordIssue(newPassword)

\* what a route answers to a body that does not parse
rejectBody(issue) == handleError(PlainError(issue))

\* ------------------------------------------- handlers written in the route
\* !value for the object validatePasswordStrength returns: no object is falsy
LogicalNot(object) == FALSE

RouteError(status, error) ==
  [status |-> status, type |-> "", error |-> error, message |-> "", userId |-> NULL]

\* POST /api/auth/register; userId: the row the handler inserts
registerRoute(name, email, password) ==
  IF email = <<>> \/ password = "" \/ name = ""
    THEN RouteError(400, "Email, password, and name are required")
  ELSE IF LogicalNot(validatePasswordStrength(password))
    THEN RouteError(400, "Password must be at least 8 characters long and contain at least one uppercase letter, one lowercase letter, and one number")
  ELSE IF usersByEmail(email) # {}
    THEN RouteError(409, "User with this email already exists")
  ELSE [status |-> 201, type |-> "", error |-> "", message |-> RegisteredMessage,
        userId |-> Len(usersTable) + 1]

\* POST /api/auth/reset-password; userId: the row the handler updates
resetPasswordRoute(token, newPassword) ==
  IF token = NULL \/ newPassword = ""
    THEN RouteError(400, "Token and new password are required")
  ELSE IF LogicalNot(validatePasswordStrength(newPassword))
    THEN RouteError(400, "Password must be at least 8 characters long and contain at least one uppercase letter, one lowercase letter, and one number")
  ELSE IF usersByResetToken(token) = {}
    THEN RouteError(400, "Invalid or expired reset token")
  ELSE LET user == usersTable[firstRow(usersByResetToken(token))]
       IN IF user.passwordResetExpires # NULL /\ now > user.passwordResetExpires
            THEN RouteError(400, "Reset token has expired")
            ELSE [status |-> 200, type |-> "", error |-> "",
                  message |-> "Password reset successfully",
                  userId |-> firstRow(usersByResetToken(token))]

\* POST of routes/resetPassword.ts: the same checks, then the account must
\* have verified its email
resetPasswordRoutePOST(token, newPassword) ==
  LET out == resetPasswordRoute(token, newPassword)
  IN IF out.userId # NULL /\ ~usersTable[out.userId].emailVerified
       THEN RouteError(403, "Please verify your email address before resetting your password")
       ELSE out

\* ---------------------------------------------------------------- actions
\* userId, sessionToken: the user and the session token a response names
Resp(op, token, r) ==
  [op |-> op, token |-> token, status |-> r.status, type |-> r.type,
   error |-> r.error, message |-> r.message, userId |-> NULL,
   sessionToken |-> NULL]

SetStore(s) ==
  /\ sessionKeys' = s.sk
  /\ userSessionsKeys' = s.us
  /\ sessionsTable' = s.db

storeVars == <<sessionsTable, sessionKeys, userSessionsKeys>>
counterVars == <<nextVerifyToken, nextResetToken, nextSessionToken>>
rateVars == <<rateLimitStore, rateLimitCalls>>

Register(name, email, password, mailOk) ==
  LET out == register(name, email, password, mailOk)
  IN /\ IF out.userId = NULL
          THEN UNCHANGED <<usersTable, nextVerifyToken>>
          ELSE /\ usersTable' = createEmailVerificationToken(
                    Append(usersTable,
                           newUserRow(name, email, hashPassword(password))),
                    out.userId, nextVerifyToken)
               /\ nextVerifyToken' = nextVerifyToken + 1
     /\ resp' = Resp("register", NULL, routeResponse(out, 201))
     /\ UNCHANGED <<storeVars, redisUp, now, nextResetToken,
                    nextSessionToken, pending, rateVars>>

Login(email, password, maxTokens) ==
  LET out == login(email, password)
  IN /\ IF out.thrown
          THEN UNCHANGED <<storeVars, nextSessionToken>>
          ELSE /\ nextSessionToken <= maxTokens
               /\ \E victim \in evictionChoices(Store, out.userId, redisUp) :
                    SetStore(createSession(Store, out.userId, nextSessionToken,
                                           redisUp, victim))
               /\ nextSessionToken' = nextSessionToken + 1
     /\ resp' = [Resp("login", IF out.thrown THEN NULL ELSE nextSessionToken,
                      routeResponse(out, 200))
                   EXCEPT !.userId = out.userId,
                          !.sessionToken =
                            IF out.thrown THEN NULL ELSE nextSessionToken]
     /\ UNCHANGED <<usersTable, redisUp, now, nextVerifyToken,
                    nextResetToken, pending, rateVars>>

Logout(sessionToken) ==
  /\ SetStore(invalidateSession(Store, sessionToken, redisUp))
  /\ resp' = Resp("logout", sessionToken, createApiResponse("Logout successful", 200))
  /\ UNCHANGED <<usersTable, redisUp, now, counterVars, pending, rateVars>>

GetCurrentUser(sessionToken) ==
  LET v == validateSession(Store, sessionToken, redisUp)
      out == getCurrentUser(sessionToken)
  IN /\ SetStore(v.s)
     /\ resp' = [Resp("me", sessionToken, routeResponse(out, 200))
                   EXCEPT !.userId = out.userId]
     /\ UNCHANGED <<usersTable, redisUp, now, counterVars, pending, rateVars>>

VerifyEmail(token) ==
  LET out == verifyEmail(token)
  IN /\ usersTable' = IF out.thrown THEN usersTable
                      ELSE markEmailVerified(usersTable, out.userId)
     /\ resp' = Resp("verifyEmail", token, routeResponse(out, 200))
     /\ UNCHANGED <<storeVars, redisUp, now, counterVars, pending, rateVars>>

ForgotPassword(email, mailOk, maxTokens) ==
  LET out == forgotPassword(email, mailOk)
  IN /\ IF out.userId = NULL
          THEN UNCHANGED <<usersTable, nextResetToken>>
          ELSE /\ nextResetToken <= maxTokens
               /\ usersTable' = writePasswordResetToken(usersTable, out.userId,
                                                        nextResetToken)
               /\ nextResetToken' = nextResetToken + 1
     /\ resp' = Resp("forgotPassword", NULL, routeResponse(out, 200))
     /\ UNCHANGED <<storeVars, redisUp, now, nextVerifyToken,
                    nextSessionToken, pending, rateVars>>

ResetPassword(token, newPassword) ==
  LET out == resetPassword(token, newPassword)
  IN /\ IF out.thrown
          THEN UNCHANGED <<usersTable, storeVars>>
          ELSE /\ usersTable' = storeNewPassword(usersTable, out.userId,
                                                 hashPassword(newPassword))
               /\ SetStore(invalidateAllUserSessions(Store, out.userId, redisUp))
     /\ resp' = Resp("resetPassword", token, routeResponse(out, 200))
     /\ UNCHANGED <<redisUp, now, counterVars, pending, rateVars>>

\* sessionToken of the response: the token rotateSession returns
Rotate(currentSessionToken, userId, maxTokens) ==
  LET out == rotateSession(currentSessionToken, userId)
      v == validateSession(Store, currentSessionToken, redisUp)
      answer(returned) ==
        [Resp("rotate", currentSessionToken, routeResponse(out, 200))
           EXCEPT !.userId = userId, !.sessionToken = returned]
  IN /\ IF out.thrown
          THEN /\ SetStore(v.s)
               /\ resp' = answer(NULL)
               /\ UNCHANGED nextSessionToken
        ELSE IF ~rotationDue(currentSessionToken)
          THEN /\ SetStore(v.s)
               /\ resp' = answer(currentSessionToken)
               /\ UNCHANGED nextSessionToken
        ELSE /\ nextSessionToken <= maxTokens
             /\ \E victim \in evictionChoices(v.s, userId, redisUp) :
                  SetStore(invalidateSession(
                             createSession(v.s, userId, nextSessionToken,
                                           redisUp, victim),
                             currentSessionToken, redisUp))
             /\ resp' = answer(nextSessionToken)
             /\ nextSessionToken' = nextSessionToken + 1
     /\ UNCHANGED <<usersTable, redisUp, now, nextVerifyToken, nextResetToken,
                    pending, rateVars>>

\* a request whose body does not parse is answered before the service is called
RejectBody(op, issue) ==
  /\ issue # ""
  /\ resp' = Resp(op, NULL, rejectBody(issue))
  /\ UNCHANGED <<usersTable, storeVars, redisUp, now, counterVars, pending,
                 rateVars>>

RegisterRequest(name, email, password, mailOk) ==
  IF registerSchema(name, email, password) # ""
    THEN RejectBody("register", registerSchema(name, email, password))
    ELSE Register(name, email, password, mailOk)

LoginRequest(email, password, maxTokens) ==
  IF loginSchema(email, password) # ""
    THEN RejectBody("login", loginSchema(email, password))
    ELSE Login(email, password, maxTokens)

ForgotPasswordRequest(email, mailOk, maxTokens) ==
  IF forgotPasswordSchema(email) # ""
    THEN RejectBody("forgotPassword", forgotPasswordSchema(email))
    ELSE ForgotPassword(email, mailOk, maxTokens)

ResetPasswordRequest(token, newPassword) ==
  IF resetPasswordSchema(token, newPassword) # ""
    THEN RejectBody("resetPassword", resetPasswordSchema(token, newPassword))
    ELSE ResetPassword(token, newPassword)

RegisterRoute(name, email, password) ==
  LET out == registerRoute(name, email, password)
  IN /\ IF out.userId = NULL
          THEN UNCHANGED <<usersTable, nextVerifyToken>>
          ELSE /\ usersTable' = createEmailVerificationToken(
                    Append(usersTable,
                           newUserRow(name, email, hashPassword(password))),
                    out.userId, nextVerifyToken)
               /\ nextVerifyToken' = nextVerifyToken + 1
     /\ resp' = Resp("register", NULL, out)
     /\ UNCHANGED <<storeVars, redisUp, now, nextResetToken,
                    nextSessionToken, pending, rateVars>>

ResetPasswordRoute(token, newPassword) ==
  LET out == resetPasswordRoute(token, newPassword)
  IN /\ IF out.userId = NULL
          THEN UNCHANGED <<usersTable, storeVars>>
          ELSE /\ usersTable' = storeNewPassword(usersTable, out.userId,
                                                 hashPassword(newPassword))
               /\ SetStore(invalidateAllUserSessions(Store, out.userId, redisUp))
     /\ resp' = Resp("resetPassword", token, out)
     /\ UNCHANGED <<redisUp, now, counterVars, pending, rateVars>>

ResetPasswordRoutePOST(token, newPassword) ==
  LET out == resetPasswordRoutePOST(token, newPassword)
  IN /\ IF out.userId = NULL
          THEN UNCHANGED <<usersTable, storeVars>>
          ELSE /\ usersTable' = storeNewPassword(usersTable, out.userId,
                                                 hashPassword(newPassword))
               /\ SetStore(invalidateAllUserSessions(Store, out.userId, redisUp))
     /\ resp' = Resp("resetPassword", token, out)
     /\ UNCHANGED <<redisUp, now, counterVars, pending, rateVars>>

\* validateSession call r up to its GET: a token the cache does not hold is
\* answered from the sessions table at once, one it holds goes on to the SETEX
ValidateRead(r, sessionToken) ==
  /\ r \notin DOMAIN pending
  /\ IF ~redisUp \/ redisGet(Store, sessionToken) = <<>>
       THEN LET v == validateDatabaseSession(Store, sessionToken)
            IN /\ SetStore(v.s)
               /\ resp' = [Resp("validate", sessionToken, createApiResponse("", 200))
                             EXCEPT !.userId = IF v.result.valid
                                                 THEN v.result.userId ELSE NULL]
               /\ UNCHANGED pending
       ELSE /\ pending' = Put(pending, r, [sessionToken |-> sessionToken,
                                           sessionData |-> redisGet(Store, sessionToken)[1]])
            /\ UNCHANGED <<storeVars, resp>>
  /\ UNCHANGED <<usersTable, redisUp, now, counterVars, rateVars>>

\* call r from its SETEX to its answer: the payload it read is written back
ValidateWrite(r) ==
  /\ r \in DOMAIN pending
  /\ SetStore(setWithTTL(Store, pending[r].sessionToken,
                         [pending[r].sessionData EXCEPT !.lastAccessed = now],
                         SESSION_TTL))
  /\ resp' = [Resp("validate", pending[r].sessionToken, createApiResponse("", 200))
                EXCEPT !.userId = pending[r].sessionData.userId]
  /\ pending' = Drop(pending, {r})
  /\ UNCHANGED <<usersTable, redisUp, now, counterVars, rateVars>>

\* resetPassword request r up to its SELECT and expiry check: a request that
\* is refused is answered at once, one that passes goes on to the UPDATE
ResetLookup(r, token, newPassword) ==
  LET out == resetPassword(token, newPassword)
  IN /\ r \notin DOMAIN pending
     /\ IF out.thrown
          THEN /\ resp' = Resp("resetPassword", token, routeResponse(out, 200))
               /\ UNCHANGED pending
          ELSE /\ pending' = Put(pending, r, [token |-> token, userId |-> out.userId,
                                              newPassword |-> newPassword])
               /\ UNCHANGED resp
     /\ UNCHANGED <<usersTable, storeVars, redisUp, now, counterVars, rateVars>>

\* request r from its UPDATE, which selects the row by id, to its answer
ResetWrite(r) ==
  /\ r \in DOMAIN pending
  /\ usersTable' = storeNewPassword(usersTable, pending[r].userId,
                                    hashPassword(pending[r].newPassword))
  /\ SetStore(invalidateAllUserSessions(Store, pending[r].userId, redisUp))
  /\ resp' = Resp("resetPassword", pending[r].token,
                  createApiResponse("Password reset successfully", 200))
  /\ pending' = Drop(pending, {r})
  /\ UNCHANGED <<redisUp, now, counterVars, rateVars>>

\* register request r up to its SELECT: a request that is refused is answered
\* at once, one that finds no row with the email goes on to the INSERT
RegisterLookup(r, name, email, password) ==
  LET out == register(name, email, password, TRUE)
  IN /\ r \notin DOMAIN pending
     /\ IF out.thrown
          THEN /\ resp' = Resp("register", NULL, routeResponse(out, 201))
               /\ UNCHANGED pending
          ELSE /\ pending' = Put(pending, r, [name |-> name, email |-> email,
                                              password |-> password])
               /\ UNCHANGED resp
     /\ UNCHANGED <<usersTable, storeVars, redisUp, now, counterVars, rateVars>>

\* request r from its INSERT to its answer
RegisterInsert(r, mailOk) ==
  LET inserted == insertUser(usersTable,
                             newUserRow(pending[r].name, pending[r].email,
                                        hashPassword(pending[r].password)))
      out == IF sendEmail(mailOk) # <<>>
               THEN Throw(sendEmail(mailOk)[1])
               ELSE Return(RegisteredMessage, Len(usersTable) + 1)
  IN /\ r \in DOMAIN pending
     /\ IF inserted = <<>>
          THEN /\ resp' = Resp("register", NULL,
                     routeResponse(Throw(PlainError(
                       "duplicate key value violates unique constraint")), 201))
               /\ UNCHANGED <<usersTable, nextVerifyToken>>
          ELSE /\ usersTable' = createEmailVerificationToken(
                     inserted[1], Len(usersTable) + 1, nextVerifyToken)
               /\ nextVerifyToken' = nextVerifyToken + 1
               /\ resp' = Resp("register", NULL, routeResponse(out, 201))
     /\ pending' = Drop(pending, {r})
     /\ UNCHANGED <<storeVars, redisUp, now, nextResetToken, nextSessionToken,
                    rateVars>>

\* forgotPassword request r up to the SELECT of createPasswordResetToken: a
\* request that finds no user is answered at once, one that finds a user goes
\* on to the UPDATE
ForgotLookup(r, email) ==
  /\ r \notin DOMAIN pending
  /\ IF usersByEmail(email) = {}
       THEN /\ resp' = Resp("forgotPassword", NULL,
                            routeResponse(forgotPassword(email, TRUE), 200))
            /\ UNCHANGED pending
       ELSE /\ pending' = Put(pending, r, firstRow(usersByEmail(email)))
            /\ UNCHANGED resp
  /\ UNCHANGED <<usersTable, storeVars, redisUp, now, counterVars, rateVars>>

\* request r from the UPDATE of createPasswordResetToken to the response
ForgotWrite(r, mailOk, maxTokens) ==
  /\ r \in DOMAIN pending
  /\ nextResetToken <= maxTokens
  /\ usersTable' = writePasswordResetToken(usersTable, pending[r], nextResetToken)
  /\ nextResetToken' = nextResetToken + 1
  /\ pending' = Drop(pending, {r})
  /\ resp' = Resp("forgotPassword", NULL,
                  routeResponse(IF sendEmail(mailOk) # <<>>
                                  THEN Throw(sendEmail(mailOk)[1])
                                  ELSE Return(ForgotMessage, pending[r]), 200))
  /\ UNCHANGED <<storeVars, redisUp, now, nextVerifyToken, nextSessionToken,
                 rateVars>>

\* the value under the session key of a token is overwritten, from outside the
\* program, by a text that is not JSON; the key keeps its TTL
Corrupt(sessionToken) ==
  /\ sessionToken \in DOMAIN sessionKeys
  /\ JSONparse(sessionKeys[sessionToken]) # <<>>
  /\ sessionKeys' = [sessionKeys EXCEPT ![sessionToken] =
                       [text |-> "{", ttlAt |-> sessionKeys[sessionToken].ttlAt]]
  /\ UNCHANGED <<usersTable, sessionsTable, userSessionsKeys, redisUp, now,
                 counterVars, pending, resp, rateVars>>

\* rateLimitMiddleware(keyPrefix, maxRequests, windowMs) on a request of a
\* client: a refused request is answered 429, an allowed one goes on to the
\* handler
RateLimitMiddleware(keyPrefix, clientIP, maxRequests, windowMs) ==
  LET identifier == <<keyPrefix, clientIP>>
      rateLimitResult == checkRateLimit(rateLimitStore, identifier,
                                        maxRequests, windowMs)
  IN /\ Len(rateLimitCalls) < MaxRateCalls
     /\ rateLimitStore' = rateLimitResult.store
     /\ rateLimitCalls' = Append(rateLimitCalls,
          [identifier |-> identifier, time |-> now,
           allowed |-> rateLimitResult.allowed,
           remaining |-> rateLimitResult.remaining,
           resetTime |-> rateLimitResult.resetTime])
     /\ resp' = IF rateLimitResult.allowed
                  THEN Resp(keyPrefix, NULL, createApiResponse("", 0))
                  ELSE Resp(keyPrefix, NULL, handleError(ErrorFactory_rateLimit(
                         "Too many requests. Please try again later.")))
     /\ UNCHANGED <<usersTable, storeVars, redisUp, now, counterVars, pending>>

\* the cache becomes reachable or unreachable
ToggleRedis ==
  /\ redisUp' = ~redisUp
  /\ UNCHANGED <<usersTable, storeVars, now, counterVars, pending, resp,
                 rateVars>>

\* time passes; Redis drops the keys whose TTL ran out
Tick(t) ==
  /\ t > now
  /\ now' = t
  /\ sessionKeys' = expireKeys(sessionKeys, t)
  /\ userSessionsKeys' = expireKeys(userSessionsKeys, t)
  /\ UNCHANGED <<usersTable, sessionsTable, redisUp, counterVars, pending, resp,
                 rateVars>>

NoResponse ==
  [op |-> "", token |-> NULL, status |-> 0, type |-> "", error |-> "",
   message |-> "", userId |-> NULL, sessionToken |-> NULL]

Init ==
  /\ usersTable = <<>>
  /\ sessionsTable = EmptyMap
  /\ sessionKeys = EmptyMap
  /\ userSessionsKeys = EmptyMap
  /\ redisUp = TRUE
  /\ now = 0
  /\ nextVerifyToken = 1
  /\ nextResetToken = 1
  /\ nextSessionToken = 1
  /\ pending = EmptyMap
  /\ resp = NoResponse
  /\ rateLimitStore = EmptyMap
  /\ rateLimitCalls = <<>>

\* Credential lifecycle: registration, verification and password reset
Next ==
  \/ \E name \in Names, email \in Emails, password \in Passwords, mailOk \in BOOLEAN :
       Register(name, email, password, mailOk)
  \/ \E token \in 1..(Cardinality(Emails) + 1) : VerifyEmail(token)
  \/ \E email \in Emails, mailOk \in BOOLEAN :
       ForgotPassword(email, mailOk, MaxResetTokens)
  \/ \E token \in 1..(MaxResetTokens + 1), password \in Passwords :
       ResetPassword(token, password)
  \/ \E t \in Instants : Tick(t)

Spec == Init /\ [][Next]_vars

\* Session lifecycle: login, logout, session validation and password reset
\* while the cache comes and goes
NextSession ==
  \/ \E name \in Names, email \in Emails, password \in Passwords, mailOk \in BOOLEAN :
       Register(name, email, password, mailOk)
  \/ \E email \in Emails, password \in Passwords :
       Login(email, password, MaxSessionTokens)
  \/ \E sessionToken \in 1..(MaxSessionTokens + 1) : Logout(sessionToken)
  \/ \E sessionToken \in 1..(MaxSessionTokens + 1) : GetCurrentUser(sessionToken)
  \/ \E email \in Emails, mailOk \in BOOLEAN :
       ForgotPassword(email, mailOk, MaxResetTokens)
  \/ \E token \in 1..(MaxResetTokens + 1), password \in Passwords :
       ResetPassword(token, password)
  \/ ToggleRedis

SpecSession == Init /\ [][NextSession]_vars

\* One registered user logging in again and again
InitLimit ==
  /\ now = 0
  /\ usersTable = createEmailVerificationToken(
         <<newUserRow("Ann", <<"a", "@", "x">>, hashPassword("Str0ng!Pass99"))>>,
         1, 1)
  /\ sessionsTable = EmptyMap
  /\ sessionKeys = EmptyMap
  /\ userSessionsKeys = EmptyMap
  /\ redisUp = TRUE
  /\ nextVerifyToken = 2
  /\ nextResetToken = 1
  /\ nextSessionToken = 1
  /\ pending = EmptyMap
  /\ resp = Resp("register", NULL, createApiResponse(RegisteredMessage, 201))
  /\ rateLimitStore = EmptyMap
  /\ rateLimitCalls = <<>>

NextLimit ==
  \/ \E email \in Emails, password \in Passwords :
       Login(email, password, MaxLimitTokens)
  \/ ToggleRedis
  \/ \E t \in 1..MaxLimitNow : Tick(t)

SpecLimit == InitLimit /\ [][NextLimit]_vars

\* Token issuance with forgotPassword requests in flight
Requests == {1, 2}

NextIssue ==
  \/ \E name \in Names, email \in Emails, mailOk \in BOOLEAN :
       Register(name, email, "Str0ng!Pass99", mailOk)
  \/ \E r \in Requests, email \in Emails : ForgotLookup(r, email)
  \/ \E r \in Requests, mailOk \in BOOLEAN : ForgotWrite(r, mailOk, MaxIssueTokens)
  \/ \E token \in 1..(Cardinality(Emails) + 1) : VerifyEmail(token)
  \/ \E token \in 1..(MaxIssueTokens + 1) : ResetPassword(token, "0ther!Pass42")
  \/ \E t \in {RESET_TTL, RESET_TTL + 1} : Tick(t)

SpecIssue == Init /\ [][NextIssue]_vars

\* Password reset of users who hold sessions, up to the expiry of the token
NextReset ==
  \/ \E name \in Names, email \in Emails, mailOk \in BOOLEAN :
       Register(name, email, "Str0ng!Pass99", mailOk)
  \/ \E email \in Emails : Login(email, "Str0ng!Pass99", MaxSessionTokens)
  \/ \E email \in Emails, mailOk \in BOOLEAN :
       ForgotPassword(email, mailOk, MaxResetTokens)
  \/ \E token \in 1..(MaxResetTokens + 1), password \in Passwords :
       ResetPassword(token, password)
  \/ ToggleRedis
  \/ Tick(RESET_TTL + 1)

SpecReset == Init /\ [][NextReset]_vars

\* Users who verify their email while they hold a session
NextProfile ==
  \/ \E name \in Names, email \in Emails, mailOk \in BOOLEAN :
       Register(name, email, "Str0ng!Pass99", mailOk)
  \/ \E email \in Emails, password \in Passwords :
       Login(email, password, MaxSessionTokens)
  \/ \E token \in 1..(Cardinality(Emails) + 1) : VerifyEmail(token)
  \/ \E sessionToken \in 1..(MaxSessionTokens + 1) : GetCurrentUser(sessionToken)
  \/ ToggleRedis

SpecProfile == Init /\ [][NextProfile]_vars

\* Sessions that age past the rotation interval and are rotated; the accounts
\* are registered before the first login.
NextRotate ==
  \/ /\ now = 0
     /\ nextSessionToken = 1
     /\ \E name \in Names, email \in Emails :
          Register(name, email, "Str0ng!Pass99", TRUE)
  \/ \E email \in Emails : Login(email, "Str0ng!Pass99", MaxRotateTokens)
  \/ \E sessionToken \in 1..(MaxRotateTokens + 1), userId \in 1..2 :
       Rotate(sessionToken, userId, MaxRotateTokens)
  \/ ToggleRedis
  \/ \E t \in {SESSION_ROTATION_INTERVAL, SESSION_ROTATION_INTERVAL + 1} : Tick(t)

SpecRotate == Init /\ [][NextRotate]_vars

\* Session store operations during which one Redis command throws
StoreOutcome(thrown, userId) ==
  routeResponse(IF thrown THEN Throw(PlainError("User not found"))
                          ELSE Return("", userId), 200)

CreateFaulty(userId, fault, maxTokens) ==
  /\ nextSessionToken <= maxTokens
  /\ \E victim \in evictionChoices(Store, userId, TRUE),
        dbVictim \in evictionChoices(Store, userId, FALSE) :
       LET out == createSessionFaulty(Store, userId, nextSessionToken, redisUp,
                                      victim, dbVictim, fault)
       IN /\ SetStore(out.s)
          /\ nextSessionToken' = IF out.thrown THEN nextSessionToken
                                               ELSE nextSessionToken + 1
          /\ resp' = [Resp("create", NULL, StoreOutcome(out.thrown, userId))
                        EXCEPT !.userId = userId,
                               !.sessionToken =
                                 IF out.thrown THEN NULL ELSE nextSessionToken]
  /\ UNCHANGED <<usersTable, redisUp, now, nextVerifyToken, nextResetToken, pending,
                 rateVars>>

ValidateFaulty(sessionToken, fault) ==
  LET v == validateSessionFaulty(Store, sessionToken, redisUp, fault)
  IN /\ SetStore(v.s)
     /\ resp' = [Resp("validate", sessionToken, StoreOutcome(FALSE, NULL))
                   EXCEPT !.userId = IF v.result.valid THEN v.result.userId ELSE NULL]
     /\ UNCHANGED <<usersTable, redisUp, now, counterVars, pending, rateVars>>

InvalidateFaulty(sessionToken, fault) ==
  /\ SetStore(invalidateSessionFaulty(Store, sessionToken, redisUp, fault))
  /\ resp' = Resp("invalidate", sessionToken, StoreOutcome(FALSE, NULL))
  /\ UNCHANGED <<usersTable, redisUp, now, counterVars, pending, rateVars>>

\* the session keys a failing loop of DELs has deleted: none, one or all
deletedBeforeFault(members, fault) ==
  IF fault # "del" \/ members = {} THEN {{}}
  ELSE {{}, {CHOOSE t \in members : \A r \in members : t <= r}, members}

InvalidateAllFaulty(userId, fault) ==
  /\ \E done \in deletedBeforeFault(smembers(Store, userId), fault) :
       SetStore(invalidateAllUserSessionsFaulty(Store, userId, redisUp, fault, done))
  /\ resp' = [Resp("invalidateAll", NULL, StoreOutcome(FALSE, NULL))
                EXCEPT !.userId = userId]
  /\ UNCHANGED <<usersTable, redisUp, now, counterVars, pending, rateVars>>

\* one registered user who has logged in MAX_SESSIONS_PER_USER times with the
\* cache reachable
InitFault ==
  /\ now = 0
  /\ usersTable = createEmailVerificationToken(
         <<newUserRow("Ann", <<"a", "@", "x">>, hashPassword("Str0ng!Pass99"))>>,
         1, 1)
  /\ sessionsTable = EmptyMap
  /\ sessionKeys = [t \in 1..MAX_SESSIONS_PER_USER |->
                      [userId |-> 1, email |-> <<"a", "@", "x">>, name |-> "Ann",
                       emailVerified |-> FALSE, createdAt |-> 0,
                       lastAccessed |-> 0, ttlAt |-> SESSION_TTL]]
  /\ userSessionsKeys = [u \in {1} |-> [members |-> 1..MAX_SESSIONS_PER_USER,
                                         ttlAt |-> SESSION_TTL]]
  /\ redisUp = TRUE
  /\ nextVerifyToken = 2
  /\ nextResetToken = 1
  /\ nextSessionToken = MAX_SESSIONS_PER_USER + 1
  /\ pending = EmptyMap
  /\ resp = [Resp("login", MAX_SESSIONS_PER_USER,
                  createApiResponse("Login successful", 200))
              EXCEPT !.userId = 1, !.sessionToken = MAX_SESSIONS_PER_USER]
  /\ rateLimitStore = EmptyMap
  /\ rateLimitCalls = <<>>

\* the sessions the operations are tried on: the oldest, and those created
\* after the limit was reached
FaultProbeTokens == {1} \cup (MAX_SESSIONS_PER_USER + 1)..MaxFaultTokens

NextFault ==
  \/ \E userId \in 1..2, fault \in RedisFaults :
       CreateFaulty(userId, fault, MaxFaultTokens)
  \/ \E sessionToken \in FaultProbeTokens, fault \in {"none", "get", "setex"} :
       ValidateFaulty(sessionToken, fault)
  \/ \E sessionToken \in FaultProbeTokens, fault \in {"none", "get", "srem", "del"} :
       InvalidateFaulty(sessionToken, fault)
  \/ \E userId \in 1..2, fault \in {"none", "smembers", "del"} :
       InvalidateAllFaulty(userId, fault)
  \/ ToggleRedis

SpecFault == InitFault /\ [][NextFault]_vars

\* Requests as they reach the routes: bodies that parse and bodies that do not
BodyNames == Names \cup {""}
BodyEmails == Emails \cup {<<"a", "x">>}
BodyPasswords == {"Str0ng!Pass99", "Weakpw1", ""}

NextRoutes ==
  \/ \E name \in BodyNames, email \in BodyEmails, password \in BodyPasswords :
       RegisterRequest(name, email, password, TRUE)
  \/ \E email \in BodyEmails, password \in BodyPasswords :
       LoginRequest(email, password, MaxSessionTokens)
  \/ \E email \in BodyEmails : ForgotPasswordRequest(email, TRUE, MaxResetTokens)
  \/ \E token \in 0..(MaxResetTokens + 1), password \in BodyPasswords :
       ResetPasswordRequest(token, password)
  \/ \E name \in BodyNames, email \in BodyEmails, password \in BodyPasswords :
       RegisterRoute(name, email, password)
  \/ \E token \in 0..(MaxResetTokens + 1), password \in BodyPasswords :
       ResetPasswordRoute(token, password)

SpecRoutes == Init /\ [][NextRoutes]_vars

\* One registered user whose sessions are validated as the days pass
DAY == 24 * 60 * 60
ExpiryInstants == {DAY, SESSION_TTL, SESSION_TTL + 1, SESSION_TTL + DAY}

NextExpiry ==
  \/ Login(<<"a", "@", "x">>, "Str0ng!Pass99", MaxSessionTokens)
  \/ \E sessionToken \in 1..MaxSessionTokens : GetCurrentUser(sessionToken)
  \/ ToggleRedis
  \/ \E t \in ExpiryInstants : Tick(t)

SpecExpiry == InitLimit /\ [][NextExpiry]_vars

\* Sessions invalidated while validateSession calls are in flight; the cache
\* is reachable throughout
NextRace ==
  \/ Login(<<"a", "@", "x">>, "Str0ng!Pass99", MaxSessionTokens)
  \/ \E r \in Requests, sessionToken \in 1..MaxSessionTokens :
       ValidateRead(r, sessionToken)
  \/ \E r \in Requests : ValidateWrite(r)
  \/ \E sessionToken \in 1..MaxSessionTokens : Logout(sessionToken)
  \/ InvalidateAllFaulty(1, "none")
  \/ \E t \in {DAY, 2 * DAY} : Tick(t)

SpecRace == InitLimit /\ [][NextRace]_vars

\* resetPassword requests in flight for one registered user
NextResetRace ==
  \/ ForgotPassword(<<"a", "@", "x">>, TRUE, MaxResetTokens)
  \/ \E r \in Requests, token \in 1..(MaxResetTokens + 1),
        newPassword \in {"0ther!Pass42", "Weakpw1"} :
       ResetLookup(r, token, newPassword)
  \/ \E r \in Requests : ResetWrite(r)
  \/ \E email \in Emails, password \in Passwords :
       Login(email, password, MaxSessionTokens)
  \/ Tick(RESET_TTL + 1)

SpecResetRace == InitLimit /\ [][NextResetRace]_vars

\* One user who logs in again and again over a week, the cache reachable: the
\* session keys of the first day expire before the reverse-index set does
NextStale ==
  \/ Login(<<"a", "@", "x">>, "Str0ng!Pass99", MaxLimitTokens)
  \/ \E sessionToken \in {1, MAX_SESSIONS_PER_USER} : GetCurrentUser(sessionToken)
  \/ \E t \in {1, SESSION_TTL} : Tick(t)

SpecStale == InitLimit /\ [][NextStale]_vars

\* A user who holds MAX_SESSIONS_PER_USER sessions and rotates one of them
NextRotateFull ==
  \/ \E sessionToken \in 1..MaxFaultTokens, userId \in 1..2 :
       Rotate(sessionToken, userId, MaxFaultTokens)
  \/ ToggleRedis
  \/ \E t \in {SESSION_ROTATION_INTERVAL, SESSION_ROTATION_INTERVAL + 1} : Tick(t)

SpecRotateFull == InitFault /\ [][NextRotateFull]_vars

\* The same calls served twice: the session keys and the reverse index are
\* those of a run in which the cache is always reachable, the sessions table
\* is that of a run in which it never is.  register and verifyEmail do not
\* look at the cache, so the users table is the same in both runs.
cacheRun(s) == [s EXCEPT !.db = EmptyMap]
tableRun(s) == [s EXCEPT !.sk = EmptyMap, !.us = EmptyMap]

CreateBoth(userId, maxTokens) ==
  /\ IF userId \notin DOMAIN usersTable
       THEN /\ resp' = [Resp("create", NULL, StoreOutcome(TRUE, userId))
                          EXCEPT !.userId = userId]
            /\ UNCHANGED <<storeVars, nextSessionToken>>
       ELSE /\ nextSessionToken <= maxTokens
            /\ \E victim \in evictionChoices(cacheRun(Store), userId, TRUE),
                  dbVictim \in evictionChoices(tableRun(Store), userId, FALSE) :
                 LET c == createSession(cacheRun(Store), userId, nextSessionToken,
                                        TRUE, victim)
                     d == createSession(tableRun(Store), userId, nextSessionToken,
                                        FALSE, dbVictim)
                 IN SetStore([sk |-> c.sk, us |-> c.us, db |-> d.db])
            /\ nextSessionToken' = nextSessionToken + 1
            /\ resp' = [Resp("create", NULL, StoreOutcome(FALSE, userId))
                          EXCEPT !.userId = userId, !.sessionToken = nextSessionToken]
  /\ UNCHANGED <<usersTable, redisUp, now, nextVerifyToken, nextResetToken, pending,
                 rateVars>>

\* userId of the response: the user the run with the cache answers
ValidateBoth(sessionToken) ==
  LET c == validateSession(cacheRun(Store), sessionToken, TRUE)
      d == validateSession(tableRun(Store), sessionToken, FALSE)
  IN /\ SetStore([sk |-> c.s.sk, us |-> c.s.us, db |-> d.s.db])
     /\ resp' = [Resp("validate", sessionToken, StoreOutcome(FALSE, NULL))
                   EXCEPT !.userId = IF c.result.valid THEN c.result.userId ELSE NULL]
     /\ UNCHANGED <<usersTable, redisUp, now, counterVars, pending, rateVars>>

NextBackends ==
  \/ \E name \in Names, email \in Emails :
       Register(name, email, "Str0ng!Pass99", TRUE)
  \/ \E token \in 1..(Cardinality(Emails) + 1) : VerifyEmail(token)
  \/ \E userId \in 1..Cardinality(Emails) : CreateBoth(userId, MaxSessionTokens)
  \/ \E sessionToken \in 1..(MaxSessionTokens + 1) : ValidateBoth(sessionToken)

SpecBackends == Init /\ [][NextBackends]_vars

\* register requests in flight
NextRegisterRace ==
  \/ \E r \in Requests, name \in Names, email \in Emails,
        password \in {"Str0ng!Pass99", "Weakpw1"} :
       RegisterLookup(r, name, email, password)
  \/ \E r \in Requests, mailOk \in BOOLEAN : RegisterInsert(r, mailOk)
  \/ \E token \in 1..(Cardinality(Emails) + 1) : VerifyEmail(token)

SpecRegisterRace == Init /\ [][NextRegisterRace]_vars

\* One registered user whose cached session is overwritten by a text that is
\* not JSON
NextCorrupt ==
  \/ Login(<<"a", "@", "x">>, "Str0ng!Pass99", MaxSessionTokens)
  \/ \E sessionToken \in 1..MaxSessionTokens : Corrupt(sessionToken)
  \/ \E sessionToken \in 1..(MaxSessionTokens + 1) : GetCurrentUser(sessionToken)
  \/ ToggleRedis
  \/ \E t \in {DAY, SESSION_TTL} : Tick(t)

SpecCorrupt == InitLimit /\ [][NextCorrupt]_vars

\* One account through every operation of the service and of the session
\* store, and the reset handler of routes/resetPassword.ts
NextAccount ==
  \/ \E name \in Names, mailOk \in BOOLEAN :
       Register(name, <<"a", "@", "x">>, "Str0ng!Pass99", mailOk)
  \/ \E password \in Passwords :
       Login(<<"a", "@", "x">>, password, MaxSessionTokens)
  \/ \E sessionToken \in 1..MaxSessionTokens : Logout(sessionToken)
  \/ \E sessionToken \in 1..MaxSessionTokens : GetCurrentUser(sessionToken)
  \/ \E sessionToken \in 1..MaxSessionTokens :
       Rotate(sessionToken, 1, MaxSessionTokens)
  \/ \E token \in 1..2 : VerifyEmail(token)
  \/ \E email \in Emails, mailOk \in BOOLEAN :
       ForgotPassword(email, mailOk, MaxResetTokens)
  \/ \E token \in 1..(MaxResetTokens + 1), password \in {"0ther!Pass42", "Weakpw1"} :
       ResetPassword(token, password)
  \/ \E token \in 1..(MaxResetTokens + 1) :
       ResetPasswordRoutePOST(token, "0ther!Pass42")
  \/ ToggleRedis
  \/ Tick(RESET_TTL + 1)

SpecAccount == Init /\ [][NextAccount]_vars

\* Requests of one client passing the rate limiter over two hours
NextRateLimit ==
  \/ \E keyPrefix \in RateKeyPrefixes :
       RateLimitMiddleware(keyPrefix, "unknown", maxRequestsOf(keyPrefix), RateWindow)
  \/ \E t \in {RateWindow, RateWindow + 1, 2 * RateWindow + 2} : Tick(t)

SpecRateLimit == Init /\ [][NextRateLimit]_vars

\* ------------------------------------------------------------ properties
\* what validate would answer for a token if it were called now
sessionValid(sessionToken, redisAvailable) ==
  validateSession(Store, sessionToken, redisAvailable).result.valid
sessionUser(sessionToken, redisAvailable) ==
  validateSession(Store, sessionToken, redisAvailable).result.userId
storedSessionTokens == DOMAIN sessionKeys \cup DOMAIN sessionsTable

\* the sessions of a user that validate, the cache being as it is now
liveSessions(userId) ==
  {tok \in storedSessionTokens :
     sessionValid(tok, redisUp) /\ sessionUser(tok, redisUp) = userId}
liveCreatedAt(tok) == validateSession(Store, tok, redisUp).result.createdAt

\* the sessions of a user that validate with the cache reachable or not
knownSessions(userId) ==
  {tok \in storedSessionTokens :
     \E r \in BOOLEAN : sessionValid(tok, r) /\ sessionUser(tok, r) = userId}

\* C1: after resetPassword succeeds for a user, every session token of that
\* user that validated before the reset is refused by validate, whether the
\* cache is reachable or not.
C1_ResetRevokesEverySession ==
  [][\A u \in DOMAIN usersTable :
        ( /\ usersTable[u].passwordResetToken # NULL
          /\ usersTable'[u].passwordResetToken = NULL )
        => \A tok \in knownSessions(u) :
             \A r \in BOOLEAN : ~(sessionValid(tok, r))']_vars

\* C2: invalidate(token) followed by validate(token) answers null, whether
\* the cache is reachable or not at either call.
C2_InvalidatedTokenIsRefused ==
  resp.op = "logout" => \A r \in BOOLEAN : ~sessionValid(resp.token, r)

\* C3: after any sequence of create calls run one at a time, no user has more
\* than MAX_SESSIONS_PER_USER live sessions.
C3_SessionCountWithinLimit ==
  \A u \in DOMAIN usersTable :
    Cardinality(liveSessions(u)) <= MAX_SESSIONS_PER_USER

\* C4: a create for a user who has exactly MAX_SESSIONS_PER_USER live sessions
\* evicts exactly one of them, one of smallest createdAt.
C4_CreateAtLimitEvictsOldest ==
  [][\A u \in DOMAIN usersTable :
        ( /\ nextSessionToken' # nextSessionToken
          /\ Cardinality(liveSessions(u)) = MAX_SESSIONS_PER_USER
          /\ nextSessionToken \in (liveSessions(u))' )
        => LET gone == liveSessions(u) \ (liveSessions(u))'
           IN /\ Cardinality(gone) = 1
              /\ \A g \in gone, t \in liveSessions(u) :
                   liveCreatedAt(g) <= liveCreatedAt(t)]_vars

\* C5: a login with a registered email and a wrong password and a login with
\* an unregistered email get the same status, error kind and message, and a
\* failed login creates no session.
LoginFailuresAlike ==
  \A e1 \in Emails, e2 \in Emails, p1 \in Passwords, p2 \in Passwords :
    ( /\ usersByEmail(e1) # {}
      /\ ~verifyPassword(p1, usersTable[firstRow(usersByEmail(e1))].passwordHash)
      /\ usersByEmail(e2) = {} )
    => /\ routeResponse(login(e1, p1), 200) = routeResponse(login(e2, p2), 200)
       /\ routeResponse(login(e1, p1), 200).status = 401
C5_LoginFailuresIndistinguishable ==
  /\ []LoginFailuresAlike
  /\ [][(resp'.op = "login" /\ resp'.status # 200)
          => UNCHANGED <<storeVars, nextSessionToken>>]_vars
\* a login was refused while one address is registered and the other is not
C5_Witness ==
  /\ Len(usersTable) = 1
  /\ resp.op = "login"
  /\ resp.status = 401

\* C6: forgotPassword answers every address with the same generic success,
\* whether the address matches a user or not and whether the mail went out
\* or not.
C6_ForgotPasswordAlwaysGeneric ==
  \A email \in Emails, mailOk \in BOOLEAN :
    routeResponse(forgotPassword(email, mailOk), 200)
      = createApiResponse(ForgotMessage, 200)

\* C7: verifyEmail and resetPassword answer a stored token past its expiry
\* exactly as they answer a token that was never issued.
C7_ExpiredTokenLikeUnknown ==
  /\ \A u \in DOMAIN usersTable :
       ( /\ usersTable[u].emailVerificationToken # NULL
         /\ now > usersTable[u].emailVerificationExpires )
       => routeResponse(verifyEmail(usersTable[u].emailVerificationToken), 200)
            = routeResponse(verifyEmail(nextVerifyToken), 200)
  /\ \A u \in DOMAIN usersTable, password \in Passwords :
       ( /\ usersTable[u].passwordResetToken # NULL
         /\ now > usersTable[u].passwordResetExpires )
       => routeResponse(resetPassword(usersTable[u].passwordResetToken, password), 200)
            = routeResponse(resetPassword(nextResetToken, password), 200)

\* C8: no two user rows have emails that are equal up to letter case.
C8_EmailsUniqueIgnoringCase ==
  \A i \in DOMAIN usersTable, j \in DOMAIN usersTable :
    i # j => sanitizeEmail(usersTable[i].email) # sanitizeEmail(usersTable[j].email)

\* C9: for every user the verification token is null exactly when its expiry
\* is null, and the reset token is null exactly when its expiry is null.
C9_TokenPairedWithExpiry ==
  \A u \in DOMAIN usersTable :
    /\ (usersTable[u].emailVerificationToken = NULL)
         <=> (usersTable[u].emailVerificationExpires = NULL)
    /\ (usersTable[u].passwordResetToken = NULL)
         <=> (usersTable[u].passwordResetExpires = NULL)
\* a user whose verification token was consumed and whose reset token was
\* issued and then consumed
C9_Witness ==
  /\ resp.op = "resetPassword"
  /\ resp.status = 200
  /\ \E u \in DOMAIN usersTable :
       /\ usersTable[u].emailVerified
       /\ usersTable[u].emailVerificationToken = NULL
       /\ usersTable[u].passwordHash = hashPassword("0ther!Pass42")
       /\ usersTable[u].passwordResetToken = NULL

\* the tokens verifyEmail / resetPassword would accept now for a user
acceptableVerificationTokens(userId) ==
  {t \in 1..nextVerifyToken :
     ~verifyEmail(t).thrown /\ verifyEmail(t).userId = userId}
acceptableResetTokens(userId) ==
  {t \in 1..nextResetToken :
     /\ ~resetPassword(t, "Str0ng!Pass99").thrown
     /\ resetPassword(t, "Str0ng!Pass99").userId = userId}

\* C10: a user has at most one acceptable verification token and at most one
\* acceptable reset token; when a token is written for a user it becomes the
\* only acceptable one, also when the issuing requests overlap.
AtMostOneAcceptableToken ==
  \A u \in DOMAIN usersTable :
    /\ Cardinality(acceptableVerificationTokens(u)) <= 1
    /\ Cardinality(acceptableResetTokens(u)) <= 1
C10_NewTokenSupersedesOlder ==
  /\ []AtMostOneAcceptableToken
  /\ [][\A u \in DOMAIN usersTable :
          (\E r \in DOMAIN pending \ DOMAIN pending' : pending[r] = u)
          => (acceptableResetTokens(u))' = {nextResetToken}]_vars
  /\ [][\A u \in DOMAIN usersTable' \ DOMAIN usersTable :
          (acceptableVerificationTokens(u))' = {nextVerifyToken}]_vars
\* the only user was issued reset tokens 1 and 2 and used neither: the later
\* write replaced the earlier token
C10_Witness ==
  /\ Len(usersTable) = 1
  /\ nextResetToken = 3
  /\ usersTable[1].passwordResetToken = 2
  /\ usersTable[1].passwordHash = hashPassword("Str0ng!Pass99")
  /\ acceptableResetTokens(1) = {2}

\* a token is answered as a token that was never issued is
verifyRefusedAsUnknown(token) ==
  /\ verifyEmail(token).thrown
  /\ verifyEmail(token) = verifyEmail(nextVerifyToken)
resetRefusedAsUnknown(token) ==
  \A password \in Passwords :
    /\ resetPassword(token, password).thrown
    /\ resetPassword(token, password) = resetPassword(nextResetToken, password)

\* C11: once verifyEmail(t) has succeeded every later verifyEmail(t) fails, and
\* once resetPassword(t, p) has succeeded every later resetPassword(t, q)
\* fails, each with the error an unknown token gets.
UsedTokenRefused ==
  /\ (resp.op = "verifyEmail" /\ resp.status = 200)
       => verifyRefusedAsUnknown(resp.token)
  /\ (resp.op = "resetPassword" /\ resp.status = 200)
       => resetRefusedAsUnknown(resp.token)
C11_TokenIsSingleUse ==
  /\ []UsedTokenRefused
  /\ [][\A t \in 1..(nextVerifyToken - 1) :
          verifyRefusedAsUnknown(t) => (verifyRefusedAsUnknown(t))']_vars
  /\ [][\A t \in 1..(nextResetToken - 1) :
          resetRefusedAsUnknown(t) => (resetRefusedAsUnknown(t))']_vars
\* verifyEmail(t) was refused for the token that verified user t before, and a
\* reset token has been used as well
C11_Witness ==
  /\ resp.op = "verifyEmail"
  /\ resp.status = 400
  /\ resp.error = "Invalid or expired verification token"
  /\ resp.token \in DOMAIN usersTable
  /\ usersTable[resp.token].emailVerified
  /\ \E u \in DOMAIN usersTable :
       usersTable[u].passwordHash = hashPassword("0ther!Pass42")

resetTokenUnknown(token) == usersByResetToken(token) = {}
resetTokenExpired(token) ==
  \E u \in usersByResetToken(token) : now > usersTable[u].passwordResetExpires

\* C12: a resetPassword call that fails, for a weak new password, an unknown
\* token or a token past its expiry, leaves every user's passwordHash and
\* reset-token fields and every session as they were.
C12_FailedResetChangesNothing ==
  [][\A t \in 1..nextResetToken :
       ( /\ resp'.op = "resetPassword"
         /\ resp'.token = t
         /\ \/ resp'.status # 200
            \/ resetTokenUnknown(t)
            \/ resetTokenExpired(t) )
       => UNCHANGED <<usersTable, storeVars>>]_vars
\* a reset with a token past its expiry was refused while the user holds a
\* session and the token is still in the row
C12_Witness ==
  /\ resp.op = "resetPassword"
  /\ resp.error = "Reset token has expired"
  /\ \E u \in usersByResetToken(resp.token) :
       /\ now > usersTable[u].passwordResetExpires
       /\ usersTable[u].passwordHash = hashPassword("Str0ng!Pass99")
       /\ liveSessions(u) # {}

\* C13: validate called on the token create returned for an existing user,
\* with nothing in between, answers a payload; and every payload validate
\* ever answers for a token carries the userId the token was created for.
OneUserPerToken ==
  \A tok \in storedSessionTokens :
    (sessionValid(tok, TRUE) /\ sessionValid(tok, FALSE))
      => sessionUser(tok, TRUE) = sessionUser(tok, FALSE)
C13_CreatedSessionValidates ==
  /\ []OneUserPerToken
  /\ [][\A tok \in {nextSessionToken} :
          (resp'.op = "login" /\ nextSessionToken' # nextSessionToken)
          => /\ resp'.sessionToken = tok
             /\ resp'.userId \in DOMAIN usersTable
             /\ (sessionValid(tok, redisUp))'
             /\ (sessionUser(tok, redisUp))' = resp'.userId]_vars
  /\ [][\A tok \in storedSessionTokens, r1 \in BOOLEAN, r2 \in BOOLEAN :
          (sessionValid(tok, r1) /\ (sessionValid(tok, r2))')
          => sessionUser(tok, r1) = (sessionUser(tok, r2))']_vars
\* the second user logged in and the token of the response validates to them
C13_Witness ==
  /\ resp.op = "login"
  /\ resp.status = 200
  /\ resp.userId = 2
  /\ sessionValid(resp.sessionToken, redisUp)
  /\ sessionUser(resp.sessionToken, redisUp) = 2

\* C14: no failing Redis command makes create, validate, invalidate,
\* invalidateAll or the limit enforcement fail: the operation completes on the
\* sessions table; only a missing user makes create fail.
StoreOps == {"create", "validate", "invalidate", "invalidateAll"}
OnlyMissingUserSurfaces ==
  (resp.op \in StoreOps /\ resp.status # 200)
    => (resp.op = "create" /\ resp.userId \notin DOMAIN usersTable)
FaultFallsBackToTable ==
  /\ \A u \in DOMAIN usersTable, fault \in {"setex", "sadd", "expire"} :
       \A victim \in evictionChoices(Store, u, TRUE),
          dbVictim \in evictionChoices(Store, u, FALSE) :
         LET out == createSessionFaulty(Store, u, nextSessionToken, TRUE,
                                        victim, dbVictim, fault)
         IN ~out.thrown /\ nextSessionToken \in DOMAIN out.s.db
  /\ \A tok \in DOMAIN sessionsTable, fault \in {"get", "del"} :
       tok \notin DOMAIN invalidateSessionFaulty(Store, tok, TRUE, fault).db
  /\ \A u \in DOMAIN usersTable, fault \in {"smembers", "del"} :
       \A done \in deletedBeforeFault(smembers(Store, u), fault) :
         \A tok \in DOMAIN invalidateAllUserSessionsFaulty(Store, u, TRUE, fault, done).db :
           sessionsTable[tok].userId # u
C14_CacheFailureNeverSurfaces ==
  /\ []OnlyMissingUserSurfaces
  /\ []FaultFallsBackToTable
  /\ [][\A tok \in {nextSessionToken} :
          (resp'.op = "create" /\ nextSessionToken' # nextSessionToken)
          => /\ resp'.sessionToken = tok
             /\ \E r \in BOOLEAN : (sessionValid(tok, r))']_vars
\* a create has completed after SETEX went through and a later command threw:
\* the new session is in Redis and in the sessions table
C14_Witness ==
  /\ resp.op = "create"
  /\ resp.status = 200
  /\ resp.sessionToken \in DOMAIN sessionKeys
  /\ resp.sessionToken \in DOMAIN sessionsTable

\* C15: when rotation is due and rotate(oldToken, userId) completes, the token
\* it returns differs from oldToken and validates to userId, and oldToken no
\* longer validates.
C15_RotationReplacesToken ==
  [][\A old \in 1..nextSessionToken, new \in {nextSessionToken} :
       ( /\ resp'.op = "rotate"
         /\ resp'.token = old
         /\ nextSessionToken' # nextSessionToken )
       => /\ resp'.sessionToken = new
          /\ new # old
          /\ (sessionValid(new, redisUp))'
          /\ (sessionUser(new, redisUp))' = resp'.userId
          /\ ~(sessionValid(old, redisUp))']_vars

\* C16: rotate(oldToken, userId) fails when oldToken does not validate or
\* validates to another user, and then creates no session and invalidates
\* none.
RotateRefusesForeignToken ==
  \A t \in 1..nextSessionToken, u \in 1..2 :
    (~sessionValid(t, redisUp) \/ sessionUser(t, redisUp) # u)
      => rotateSession(t, u).thrown
C16_FailedRotationChangesNothing ==
  /\ []RotateRefusesForeignToken
  /\ [][(resp'.op = "rotate" /\ resp'.status # 200 /\ now' = now)
          => /\ nextSessionToken' = nextSessionToken
             /\ storedSessionTokens' = storedSessionTokens
             /\ \A u \in DOMAIN usersTable :
                  (knownSessions(u))' = knownSessions(u)]_vars
\* a rotation was refused for a live session of another user
C16_Witness ==
  /\ resp.op = "rotate"
  /\ resp.status = 500
  /\ sessionValid(resp.token, redisUp)
  /\ sessionUser(resp.token, redisUp) # resp.userId
  /\ resp.userId \in DOMAIN usersTable

\* C17: when rotation is not yet due, rotate(oldToken, userId) returns oldToken
\* and leaves the live sessions of every user as they were, and a second call
\* answers the same.
C17_EarlyRotationIsNoOp ==
  [][\A t \in 1..nextSessionToken, u \in DOMAIN usersTable :
       ( /\ sessionValid(t, redisUp)
         /\ sessionUser(t, redisUp) = u
         /\ now - liveCreatedAt(t) <= SESSION_ROTATION_INTERVAL
         /\ resp'.op = "rotate" /\ resp'.token = t /\ resp'.userId = u
         /\ now' = now /\ redisUp' = redisUp )
       => /\ resp'.status = 200
          /\ resp'.sessionToken = t
          /\ nextSessionToken' = nextSessionToken
          /\ storedSessionTokens' = storedSessionTokens
          /\ \A w \in DOMAIN usersTable : (knownSessions(w))' = knownSessions(w)
          /\ (~rotateSession(t, u).thrown /\ ~rotationDue(t))']_vars
\* a session exactly SESSION_ROTATION_INTERVAL old was handed back unrotated
C17_Witness ==
  /\ resp.op = "rotate"
  /\ resp.status = 200
  /\ resp.sessionToken = resp.token
  /\ sessionValid(resp.token, redisUp)
  /\ now - liveCreatedAt(resp.token) = SESSION_ROTATION_INTERVAL

\* C18: shouldRotate(createdAt) is true exactly when createdAt is missing, or
\* cannot be parsed, or is more than 30 minutes before now.
CreatedAtInputs ==
  {<<>>, <<"not", "a", "date">>}
    \cup {toISOString(t) : t \in {0, 1, SESSION_ROTATION_INTERVAL}}
C18_ShouldRotateFailsSafe ==
  \A createdAt \in CreatedAtInputs :
    shouldRotateSession(createdAt)
      <=> \/ createdAt = <<>>
          \/ getTime(createdAt) = <<>>
          \/ now - getTime(createdAt)[1] > SESSION_ROTATION_INTERVAL

\* C19: getCurrentUser(token) returns the email, name and emailVerified that
\* the session payload has held since the session was created, whatever has
\* become of the user row since.
C19_CurrentUserFromPayload ==
  \A tok \in DOMAIN sessionKeys :
    redisUp
      => /\ ~getCurrentUser(tok).thrown
         /\ currentUserFields(tok).email = sessionKeys[tok].email
         /\ currentUserFields(tok).name = sessionKeys[tok].name
         /\ currentUserFields(tok).emailVerified = sessionKeys[tok].emailVerified

\* C20: logout(token) succeeds for every token, and a second logout of the
\* same token succeeds and leaves the session state as the first left it.
C20_LogoutIsIdempotent ==
  /\ [](resp.op = "logout" => resp.status = 200)
  /\ [][(resp.op = "logout" /\ resp' = resp) => UNCHANGED storeVars]_vars

\* C21: register and resetPassword reject a password of strength score below
\* MIN_SCORE with a Validation error before any state change: no user row is
\* inserted or given the hash of such a password, and a rejected request
\* leaves the users, the sessions and the token counters as they were.
WeakPasswordRejected ==
  \A password \in Passwords :
    ~validatePasswordStrength(password).isValid
      => /\ \A name \in Names, email \in Emails, mailOk \in BOOLEAN :
              /\ register(name, email, password, mailOk).thrown
              /\ register(name, email, password, mailOk).error.type = "VALIDATION"
         /\ \A token \in 1..nextResetToken :
              /\ resetPassword(token, password).thrown
              /\ resetPassword(token, password).error.type = "VALIDATION"
C21_WeakPasswordChangesNothing ==
  /\ []WeakPasswordRejected
  /\ [][\A u \in DOMAIN usersTable' :
          (u \notin DOMAIN usersTable
             \/ usersTable'[u].passwordHash # usersTable[u].passwordHash)
          => \E password \in Passwords :
               /\ validatePasswordStrength(password).isValid
               /\ usersTable'[u].passwordHash = hashPassword(password)]_vars
  /\ [][(resp'.op \in {"register", "resetPassword"} /\ resp'.type = "VALIDATION")
          => UNCHANGED <<usersTable, storeVars, counterVars>>]_vars

\* C22: a register, login, forgotPassword or resetPassword request whose body
\* does not pass the schema is answered with status 400 and error kind
\* Validation, and changes no state.
BadBodyIsValidationError ==
  /\ \A name \in BodyNames, email \in BodyEmails, password \in BodyPasswords :
       registerSchema(name, email, password) # ""
         => /\ rejectBody(registerSchema(name, email, password)).status = 400
            /\ rejectBody(registerSchema(name, email, password)).type = "VALIDATION"
  /\ \A email \in BodyEmails, password \in BodyPasswords :
       loginSchema(email, password) # ""
         => /\ rejectBody(loginSchema(email, password)).status = 400
            /\ rejectBody(loginSchema(email, password)).type = "VALIDATION"
  /\ \A email \in BodyEmails :
       forgotPasswordSchema(email) # ""
         => /\ rejectBody(forgotPasswordSchema(email)).status = 400
            /\ rejectBody(forgotPasswordSchema(email)).type = "VALIDATION"
  /\ \A token \in 0..nextResetToken, password \in BodyPasswords :
       resetPasswordSchema(token, password) # ""
         => /\ rejectBody(resetPasswordSchema(token, password)).status = 400
            /\ rejectBody(resetPasswordSchema(token, password)).type = "VALIDATION"
C22_BadBodyRejectedUnchanged ==
  /\ []BadBodyIsValidationError
  /\ [][\A op \in {"register", "login", "forgotPassword", "resetPassword"},
          issue \in {"Name must be at least 2 characters long",
                     "Invalid email format", "Password is required",
                     "Password must be at least 8 characters long",
                     "Reset token is required"} :
          RejectBody(op, issue) => UNCHANGED <<usersTable, storeVars, counterVars>>]_vars

\* the record validate answers from: the Redis key when the cache is reachable
\* and holds the token, the sessions row otherwise
answeredFromCache(tok) == redisUp /\ tok \in DOMAIN sessionKeys

\* C23: the stored lastAccessed of a session never decreases: each successful
\* validate sets it to the time of the call, which is not before the value
\* the previous validate or create left.
LastAccessedNotAhead ==
  /\ \A tok \in DOMAIN sessionKeys : sessionKeys[tok].lastAccessed <= now
  /\ \A tok \in DOMAIN sessionsTable : sessionsTable[tok].lastAccessed <= now
C23_LastAccessedMonotone ==
  /\ []LastAccessedNotAhead
  /\ [][/\ \A tok \in DOMAIN sessionKeys \cap DOMAIN sessionKeys' :
             sessionKeys'[tok].lastAccessed >= sessionKeys[tok].lastAccessed
        /\ \A tok \in DOMAIN sessionsTable \cap DOMAIN sessionsTable' :
             sessionsTable'[tok].lastAccessed >= sessionsTable[tok].lastAccessed]_vars
  /\ [][\A tok \in storedSessionTokens :
          ( /\ resp'.op = "me" /\ resp'.status = 200 /\ resp'.token = tok
            /\ now' = now /\ redisUp' = redisUp )
          => IF answeredFromCache(tok)
               THEN sessionKeys'[tok].lastAccessed = now
               ELSE sessionsTable'[tok].lastAccessed = now]_vars
\* a session kept in the sessions table was validated a day or more after it
\* was created
C23_Witness ==
  /\ resp.op = "me"
  /\ resp.status = 200
  /\ ~answeredFromCache(resp.token)
  /\ resp.token \in DOMAIN sessionsTable
  /\ sessionsTable[resp.token].lastAccessed = now
  /\ sessionsTable[resp.token].lastAccessed >= sessionsTable[resp.token].createdAt + DAY

\* C28: every successful validate moves the expiry of the session to
\* SESSION_TTL after the call, whichever backend holds the session; and no
\* session validates more than SESSION_TTL after it was last validated or
\* created.
C28_ValidateSlidesExpiry ==
  /\ [](\A tok \in storedSessionTokens :
          /\ sessionValid(tok, TRUE) /\ tok \in DOMAIN sessionKeys
               => now <= sessionKeys[tok].lastAccessed + SESSION_TTL
          /\ sessionValid(tok, FALSE)
               => now <= sessionsTable[tok].lastAccessed + SESSION_TTL)
  /\ [][\A tok \in storedSessionTokens :
          ( /\ resp'.op = "me" /\ resp'.status = 200 /\ resp'.token = tok
            /\ now' = now /\ redisUp' = redisUp )
          => IF answeredFromCache(tok)
               THEN sessionKeys'[tok].ttlAt = now + SESSION_TTL
               ELSE sessionsTable'[tok].expiresAt = now + SESSION_TTL]_vars

\* C29: validate answers a payload for a session of the sessions table exactly
\* while its expiresAt is later than now; at expiresAt and after it answers
\* null.
C29_DurableSessionLiveBeforeExpiry ==
  \A tok \in DOMAIN sessionsTable :
    validateDatabaseSession(Store, tok).result.valid
      <=> sessionsTable[tok].expiresAt > now

\* C24: once invalidate(token), or invalidateAll for the user of the token,
\* has completed, every validate(token) that starts later answers null,
\* whatever validate calls on the token were in flight meanwhile: the token
\* is refused when the invalidation completes, and a token that was issued
\* and is refused is never accepted again.
C24_InvalidatedStaysInvalid ==
  /\ [][\A tok \in 1..(nextSessionToken - 1) :
          (resp'.op = "logout" /\ resp'.token = tok /\ resp' # resp)
          => ~(sessionValid(tok, redisUp))']_vars
  /\ [][(resp'.op = "invalidateAll" /\ resp' # resp)
          => \A tok \in 1..(nextSessionToken - 1) : ~(sessionValid(tok, redisUp))']_vars
  /\ [][\A tok \in 1..(nextSessionToken - 1) :
          ~sessionValid(tok, redisUp) => ~(sessionValid(tok, redisUp))']_vars

\* C25: for each issued reset token at most one resetPassword call succeeds,
\* also when two requests carry the same token at the same time: a call
\* succeeds only while its token is still stored, and its success removes the
\* token, after which the token is refused.
C25_ResetTokenUsedOnce ==
  /\ [][\A r \in DOMAIN pending \ DOMAIN pending' :
          \A t \in {pending[r].token} :
            /\ usersByResetToken(t) # {}
            /\ (usersByResetToken(t))' = {}]_vars
  /\ [][\A t \in 1..(nextResetToken - 1) :
          (resp'.op = "resetPassword" /\ resp'.status = 200 /\ resp'.token = t)
          => (resetRefusedAsUnknown(t))']_vars

\* C26: a create for a user who has fewer than MAX_SESSIONS_PER_USER live
\* sessions removes no live session, whatever entries without a session key
\* the reverse-index set holds.
C26_NoEvictionBelowLimit ==
  [][\A u \in DOMAIN usersTable :
       ( /\ resp'.op = "login"
         /\ resp'.userId = u
         /\ nextSessionToken' # nextSessionToken
         /\ Cardinality(liveSessions(u)) < MAX_SESSIONS_PER_USER )
       => liveSessions(u) \subseteq (liveSessions(u))']_vars

\* C27: a rotate(oldToken, userId) that creates a session removes no session
\* but the one oldToken names: every other session of the user that validated
\* before the rotation validates after it, also when the user holds
\* MAX_SESSIONS_PER_USER sessions.
C27_RotationKeepsOtherSessions ==
  [][\A old \in 1..nextSessionToken, u \in DOMAIN usersTable :
       ( /\ resp'.op = "rotate"
         /\ resp'.token = old
         /\ resp'.userId = u
         /\ nextSessionToken' # nextSessionToken )
       => (liveSessions(u) \ {old}) \subseteq (liveSessions(u))']_vars

\* C30: between session operations every session key the cache holds is a
\* member of the reverse-index set of its user.
C30_CachedSessionIsIndexed ==
  \A tok \in DOMAIN sessionKeys :
    tok \in smembers(Store, sessionKeys[tok].userId)

\* C31: a session created while the cache was reachable, not expired and not
\* invalidated, still validates while the cache is unreachable.
C31_CacheOutageKeepsSession ==
  ~redisUp => \A tok \in DOMAIN sessionKeys : sessionValid(tok, redisUp)

\* the fields of a validate answer the caller sees besides createdAt
payloadOf(result) ==
  IF result.valid
    THEN <<result.userId, result.email, result.name, result.emailVerified>>
    ELSE <<>>

\* C32: after the same register, verifyEmail, create and validate calls, a
\* validate served by the cache and a validate served by the sessions table
\* answer the same userId, email, name and emailVerified for every token.
C32_PayloadSameInBothBackends ==
  \A tok \in 1..(nextSessionToken - 1) :
    payloadOf(validateSession(cacheRun(Store), tok, TRUE).result)
      = payloadOf(validateSession(tableRun(Store), tok, FALSE).result)

\* C33: a register that answers an error, the failure to send the
\* verification email included, has written nothing: the users table is as it
\* was before the call, so the registration can be retried.
C33_FailedRegisterWritesNothing ==
  [][(resp'.op = "register" /\ resp'.status # 201) => usersTable' = usersTable]_vars

\* C34: however register calls that carry the same email interleave, the
\* users table holds at most one row with that email.
C34_OneRowPerEmail ==
  \A i, j \in DOMAIN usersTable :
    usersTable[i].email = usersTable[j].email => i = j

\* a register that found no row with its email was refused by the INSERT: the
\* other request with the same email had inserted its row meanwhile
C34_Witness ==
  /\ resp.op = "register"
  /\ resp.status = 409
  /\ resp.error = "Resource already exists"
  /\ Len(usersTable) = 1
  /\ pending = EmptyMap

\* C35: a validate that finds, in the cache, a value it cannot parse answers
\* null and deletes the session key; it answers no payload for the token.
C35_MalformedPayloadDeleted ==
  [][\A tok \in DOMAIN sessionKeys :
       (GetCurrentUser(tok) /\ redisUp /\ JSONparse(sessionKeys[tok]) = <<>>)
       => /\ resp'.status = 401
          /\ resp'.userId = NULL
          /\ tok \notin DOMAIN sessionKeys']_vars

\* the token was refused with the cache reachable, before any key expired,
\* and its key is gone while the reverse index still lists it
C35_Witness ==
  /\ resp.op = "me"
  /\ resp.status = 401
  /\ redisUp
  /\ now = 0
  /\ resp.token \in smembers(Store, 1)
  /\ resp.token \notin DOMAIN sessionKeys

\* the session record validate looks for: the session key, or else a row of
\* the sessions table that has not expired
liveRecord(tok) ==
  \/ redisUp /\ tok \in DOMAIN sessionKeys
  \/ validateDatabaseSession(Store, tok).result.valid
indexed(tok) == \E u \in DOMAIN userSessionsKeys : tok \in smembers(Store, u)

\* C36: validate answers a payload for a token exactly when the token has a
\* live session record, whether or not a reverse-index set lists the token: a
\* session missing from the set of its user validates, a token the set lists
\* without a live record does not.
C36_ValidateIgnoresReverseIndex ==
  [][\A tok \in 1..nextSessionToken :
       GetCurrentUser(tok)
       => /\ (liveRecord(tok) /\ ~indexed(tok) => resp'.status = 200)
          /\ (~liveRecord(tok) /\ indexed(tok) => resp'.status = 401)
          /\ (resp'.status = 200 <=> liveRecord(tok))]_vars

\* a session no reverse-index set lists has just validated
C36_Witness ==
  /\ resp.op = "me"
  /\ resp.status = 200
  /\ resp.token \in DOMAIN sessionKeys
  /\ ~indexed(resp.token)

\* C37: the passwordHash of a user is written by register, as the initial
\* value of a new row, and by a resetPassword that succeeds; no other step,
\* and no resetPassword that fails, changes it.
C37_PasswordHashWrittenByRegisterAndReset ==
  /\ [][\A i \in DOMAIN usersTable :
          usersTable'[i].passwordHash # usersTable[i].passwordHash
          => resp'.op = "resetPassword" /\ resp'.status = 200]_vars
  /\ [][Len(usersTable') >= Len(usersTable)
        /\ (Len(usersTable') > Len(usersTable) => resp'.op = "register")]_vars

\* a reset has succeeded and the row holds the hash of the new password
C37_Witness ==
  /\ resp.op = "resetPassword"
  /\ resp.status = 200
  /\ Len(usersTable) = 1
  /\ usersTable[1].passwordHash = hashPassword("0ther!Pass42")

verificationFields(user) ==
  <<user.emailVerified, user.emailVerificationToken, user.emailVerificationExpires>>
resetFields(user) == <<user.passwordResetToken, user.passwordResetExpires>>

\* C38: verification and reset are independent: only forgotPassword and
\* resetPassword change the reset token and its expiry, only verifyEmail
\* changes emailVerified and the verification token and its expiry, and a
\* resetPassword with a stored, unexpired token and an acceptable password
\* succeeds whether or not the email is verified.
C38_VerificationAndResetIndependent ==
  /\ [][\A i \in DOMAIN usersTable :
          /\ resetFields(usersTable'[i]) # resetFields(usersTable[i])
               => resp'.op \in {"forgotPassword", "resetPassword"}
          /\ verificationFields(usersTable'[i]) # verificationFields(usersTable[i])
               => resp'.op = "verifyEmail"]_vars
  /\ [][\A tok \in 1..(nextResetToken - 1) :
          ( /\ \/ ResetPassword(tok, "0ther!Pass42")
               \/ ResetPasswordRoutePOST(tok, "0ther!Pass42")
            /\ usersByResetToken(tok) # {}
            /\ \A i \in usersByResetToken(tok) :
                 now <= usersTable[i].passwordResetExpires )
          => resp'.status = 200]_vars

\* the calls of the history before call k that carry its identifier
earlierCalls(k) ==
  {j \in 1..(k - 1) : rateLimitCalls[j].identifier = rateLimitCalls[k].identifier}
latestEarlier(k) == CHOOSE j \in earlierCalls(k) : \A i \in earlierCalls(k) : i <= j
\* call k falls in the window the answer before it announced
inWindow(k) ==
  /\ earlierCalls(k) # {}
  /\ rateLimitCalls[k].time <= rateLimitCalls[latestEarlier(k)].resetTime
allowedInWindow(k) ==
  Cardinality({j \in earlierCalls(k) :
                 /\ rateLimitCalls[j].allowed
                 /\ rateLimitCalls[j].resetTime
                      = rateLimitCalls[latestEarlier(k)].resetTime})

\* C39: for every identifier, the first call and every first call after a
\* resetTime has passed is allowed and opens a window; within a window the
\* first maxRequests calls are allowed and every further call is answered
\* allowed=false with remaining 0.
C39_RateLimitPerWindow ==
  \A k \in DOMAIN rateLimitCalls :
    LET call == rateLimitCalls[k]
        maxRequests == maxRequestsOf(call.identifier[1])
    IN IF ~inWindow(k)
         THEN /\ call.allowed
              /\ call.remaining = maxRequests - 1
              /\ call.resetTime = call.time + RateWindow
         ELSE /\ call.resetTime = rateLimitCalls[latestEarlier(k)].resetTime
              /\ IF allowedInWindow(k) < maxRequests
                   THEN call.allowed
                        /\ call.remaining = maxRequests - allowedInWindow(k) - 1
                   ELSE ~call.allowed /\ call.remaining = 0

\* a client was refused in a full window of three and allowed again after
\* its resetTime
C39_Witness ==
  \E k, j \in DOMAIN rateLimitCalls :
    /\ k < j
    /\ rateLimitCalls[k].identifier = <<"forgot_password", "unknown">>
    /\ rateLimitCalls[j].identifier = rateLimitCalls[k].identifier
    /\ ~rateLimitCalls[k].allowed
    /\ allowedInWindow(k) = 3
    /\ rateLimitCalls[j].allowed
    /\ rateLimitCalls[j].time > rateLimitCalls[k].resetTime

====
